---- MODULE Spec2Model ----
(***************************************************************************)
(* Model of trailbase's record-access core:                                *)
(*   - the schema metadata cache      (trailbase-core/src/schema_metadata.rs)*)
(*   - the query builders             (records/query_builder.rs and the    *)
(*                                     earlier records/json_to_sql.rs)     *)
(*   - foreign-key expansion          (expand_tables / Expansions::build)  *)
(*   - the parameter builder          (Params::from, records/json_to_sql.rs)*)
(*   - the alter-table handler        (admin/table/alter_table.rs)         *)
(*   - the JSON schema registry       (trailbase-extension/src/jsonschema.rs)*)
(* Every subsystem has its own specification over the shared variables.    *)
(***************************************************************************)
EXTENDS Integers, Sequences, FiniteSets, TLC

VARIABLES
  \* ---- schema metadata cache ----
  catalog,    \* the engine's system catalog: set of sqlite_schema rows
  ddlCount,   \* number of DDL statements executed so far
  triggers,   \* file-tracking triggers installed in the engine
  state,      \* SchemaMetadataCacheState: [tables, views]
  inv,        \* per caller: progress of an invalidate_all call
  got,        \* per reader: result of its last get_table/get_view/fmt
  \* ---- query builders ----
  build,      \* which records module the build holds: query_builder.rs or json_to_sql.rs
  rows,       \* the record table: primary key -> stored row or NoRow
  store,      \* object store: set of object paths that exist
  ledger,     \* _file_deletions: set of [rowid, json]
  nextPath,   \* next fresh object path handed out by FileUploadInput::consume
  calls,      \* number of query-builder calls made so far
  op,         \* the query-builder call that is running
  returned,   \* what the last call that returned gave back
  \* ---- pure functions ----
  fnIn,       \* input drawn for the function under check
  fnOut,      \* its result
  pushed,     \* the Params after the caller's later push_param
  lazy,       \* a LazyParams value and what its calls returned
  \* ---- alter table ----
  live,       \* the live database: its tables with their rows
  migrations, \* the migration files on disk
  config,     \* the configuration: table_name of every record API
  alter,      \* the alter_table_handler call
  \* ---- JSON schema registry ----
  registry    \* SCHEMA_REGISTRY: schema name -> Option<SchemaEntry>

cacheVars == <<catalog, ddlCount, triggers, state, inv, got>>
recordVars == <<build, rows, store, ledger, nextPath, calls, op, returned>>
fnVars == <<fnIn, fnOut, pushed, lazy>>
alterVars == <<live, migrations, config, alter>>
schemaVars == <<registry>>
vars == <<catalog, ddlCount, triggers, state, inv, got,
          build, rows, store, ledger, nextPath, calls, op, returned,
          fnIn, fnOut, pushed, lazy, live, migrations, config, alter, registry>>

None == "None"

\***************************************************************************
\* Schema metadata cache
\***************************************************************************

\* Bound: number of DDL statements the environment executes.
MaxDDL == 2

Databases == <<"main", "aux">>
Invokers == {"i1", "i2"}
Readers == {"r1"}

\* DDL statements the environment may run.  A catalog row keeps the object's
\* database, type and name, whether its stored DDL text parses, whether the
\* table declares a std.FileUpload column, and a version that stands for the
\* DDL text itself.
DDLMenu ==
  { [db |-> "main", type |-> "table", name |-> "t", parses |-> TRUE,  file |-> FALSE],
    [db |-> "main", type |-> "table", name |-> "t", parses |-> TRUE,  file |-> TRUE],
    [db |-> "main", type |-> "table", name |-> "t", parses |-> FALSE, file |-> FALSE],
    [db |-> "aux",  type |-> "table", name |-> "t", parses |-> TRUE,  file |-> TRUE],
    [db |-> "main", type |-> "view",  name |-> "v", parses |-> TRUE,  file |-> FALSE],
    [db |-> "main", type |-> "view",  name |-> "v", parses |-> FALSE, file |-> FALSE],
    [db |-> "aux",  type |-> "view",  name |-> "v", parses |-> TRUE,  file |-> FALSE] }

CatalogRow(d, v) ==
  [db |-> d.db, type |-> d.type, name |-> d.name, parses |-> d.parses,
   file |-> d.file, ver |-> v]

SameObject(r, d) == r.db = d.db /\ r.type = d.type /\ r.name = d.name

\* "SELECT sql FROM {db}.sqlite_schema WHERE type = 'table'"
TableRows(cat, db) == {r \in cat : r.db = db /\ r.type = "table"}

\* "SELECT sql FROM sqlite_schema WHERE type = 'view'": the statement names no
\* database, so the engine resolves sqlite_schema to the main database.
ViewRows(cat, db) == {r \in cat : r.db = "main" /\ r.type = "view"}

\* Table with name.database_schema = Some(db)
ParsedTable(r, db) == [db |-> db, name |-> r.name, file |-> r.file, ver |-> r.ver]

\* lookup_and_parse_all_table_schemas: Err as soon as one row does not parse.
LookupAllTables(cat) ==
  LET all == UNION {TableRows(cat, Databases[k]) : k \in 1..Len(Databases)}
  IN IF \E r \in all : ~r.parses
       THEN [ok |-> FALSE, val |-> {}]
       ELSE [ok |-> TRUE,
             val |-> UNION {{ParsedTable(r, Databases[k]) : r \in TableRows(cat, Databases[k])}
                              : k \in 1..Len(Databases)}]

\* lookup_and_parse_all_view_schemas: a row that does not parse is logged and
\* skipped; every other row is pushed with database_schema = Some(db.name).
LookupAllViews(cat) ==
  UNION {{[db |-> Databases[k], name |-> r.name, ver |-> r.ver]
            : r \in {x \in ViewRows(cat, Databases[k]) : x.parses}}
           : k \in 1..Len(Databases)}

\* TableMetadata::new(t, tables, USER_TABLE)
TableMetadata(t, tables) == [name |-> <<t.db, t.name>>, schema |-> t]

\* ViewMetadata::new(view, tables): derived from the view and the table list.
ViewMetadata(v, tables) == [name |-> <<v.db, v.name>>, schema |-> v, tables |-> tables]

TableMap(tables) == {TableMetadata(t, tables) : t \in tables}

ViewSet(views, tables) == {ViewMetadata(v, tables) : v \in views}

\* The triggers build_tables installs: one pair per file column.
FileTriggers(tables) == {<<t.db, t.name>> : t \in {x \in tables : x.file}}

\* build_tables rejects a file column on an attached database.
CrossDbFile(tables) == \E t \in tables : t.file /\ t.db # "main"

IdleCall == [pc |-> "idle", tables |-> {}, table_map |-> {}, ret |-> "none"]

\* The result of SchemaMetadataCache::new on a catalog it can read.
FreshState(cat) ==
  LET tables == LookupAllTables(cat).val
  IN [tables |-> TableMap(tables), views |-> ViewSet(LookupAllViews(cat), tables)]

InitCatalog ==
  { CatalogRow([db |-> "main", type |-> "table", name |-> "t", parses |-> TRUE, file |-> FALSE], 0),
    CatalogRow([db |-> "main", type |-> "view",  name |-> "v", parses |-> TRUE, file |-> FALSE], 0) }

CacheInit ==
  /\ catalog = InitCatalog
  /\ ddlCount = 0
  /\ triggers = FileTriggers(LookupAllTables(InitCatalog).val)
  /\ state = FreshState(InitCatalog)
  /\ inv = [i \in Invokers |-> IdleCall]
  /\ got = [r \in Readers |-> [kind |-> "none", val |-> {}]]

\* The environment runs a DDL statement (create or replace a table or view).
ExecuteDDL ==
  /\ ddlCount < MaxDDL
  /\ \E d \in DDLMenu :
       catalog' = {r \in catalog : ~SameObject(r, d)} \cup {CatalogRow(d, ddlCount + 1)}
  /\ ddlCount' = ddlCount + 1
  /\ UNCHANGED <<triggers, state, inv, got>>

\* invalidate_all is called.
InvalidateStart(i) ==
  /\ inv[i].pc = "idle"
  /\ inv' = [inv EXCEPT ![i] = [IdleCall EXCEPT !.pc = "lookup_tables"]]
  /\ UNCHANGED <<catalog, ddlCount, triggers, state, got>>

\* A step of invalidate_all returns Err(SchemaLookupError).
Fail(i) == [inv EXCEPT ![i] = [IdleCall EXCEPT !.ret = "err"]]

\* let tables = lookup_and_parse_all_table_schemas(conn).await?;
LookupTables(i) ==
  /\ inv[i].pc = "lookup_tables"
  /\ LET res == LookupAllTables(catalog)
     IN \/ /\ res.ok
           /\ inv' = [inv EXCEPT ![i].pc = "build_tables", ![i].tables = res.val]
        \/ inv' = Fail(i)      \* unparseable DDL, or the engine call failed
  /\ UNCHANGED <<catalog, ddlCount, triggers, state, got>>

\* Mutant: the table map is stored in the cache as soon as it is built.
BuildTablesStoresEarly(i) ==
  /\ inv[i].pc = "build_tables"
  /\ \/ /\ ~CrossDbFile(inv[i].tables)
        /\ triggers' = triggers \cup FileTriggers(inv[i].tables)
        /\ state' = [state EXCEPT !.tables = TableMap(inv[i].tables)]
        /\ inv' = [inv EXCEPT ![i].pc = "build_views",
                              ![i].table_map = TableMap(inv[i].tables)]
     \/ /\ \E done \in SUBSET FileTriggers({t \in inv[i].tables : t.db = "main"}) :
             triggers' = triggers \cup done
        /\ state' = state
        /\ inv' = Fail(i)
  /\ UNCHANGED <<catalog, ddlCount, got>>

\* let table_map = Self::build_tables(conn, &tables).await?;
BuildTables(i) ==
  /\ inv[i].pc = "build_tables"
  /\ \/ /\ ~CrossDbFile(inv[i].tables)
        /\ triggers' = triggers \cup FileTriggers(inv[i].tables)
        /\ inv' = [inv EXCEPT ![i].pc = "build_views",
                              ![i].table_map = TableMap(inv[i].tables)]
     \/ \* a cross-database file column, or execute_batch failed: the triggers
        \* of the tables visited before the failure stay installed
        /\ \E done \in SUBSET FileTriggers({t \in inv[i].tables : t.db = "main"}) :
             triggers' = triggers \cup done
        /\ inv' = Fail(i)
  /\ UNCHANGED <<catalog, ddlCount, state, got>>

\* Mutant: the tables are stored, the views are left for a later write.
SwapStateTorn(table_map, views) == [tables |-> table_map, views |-> state.views]

\* *self.state.write() = SchemaMetadataCacheState { tables: table_map, views };
SwapState(table_map, views) == [tables |-> table_map, views |-> views]

\* let views = Self::build_views(conn, &tables).await?; followed by the swap
\* under the write lock and Ok(()).
BuildViews(i) ==
  /\ inv[i].pc = "build_views"
  /\ \/ /\ state' = SwapState(inv[i].table_map,
                              ViewSet(LookupAllViews(catalog), inv[i].tables))
        /\ inv' = [inv EXCEPT ![i] = [IdleCall EXCEPT !.ret = "ok"]]
     \/ /\ inv' = Fail(i)      \* list_databases or read_query_rows failed
        /\ UNCHANGED state
  /\ UNCHANGED <<catalog, ddlCount, triggers, got>>

\* HashSet::get(name).cloned(): an Option, here the empty set or a singleton.
Lookup(set, name) == {m \in set : m.name = name}

QualifiedNames == {<<db, n>> : db \in {"main", "aux"}, n \in {"t", "v"}}

\* self.state.read().tables.get(name).cloned()
GetTable(r) ==
  /\ \E n \in QualifiedNames :
       got' = [got EXCEPT ![r] = [kind |-> "table", val |-> Lookup(state.tables, n)]]
  /\ UNCHANGED <<catalog, ddlCount, triggers, state, inv>>

\* self.state.read().views.get(name).cloned()
GetView(r) ==
  /\ \E n \in QualifiedNames :
       got' = [got EXCEPT ![r] = [kind |-> "view", val |-> Lookup(state.views, n)]]
  /\ UNCHANGED <<catalog, ddlCount, triggers, state, inv>>

\* Debug::fmt: one read guard, then the names of the tables and of the views.
FmtDebug(r) ==
  /\ got' = [got EXCEPT ![r] = [kind |-> "debug", val |-> state]]
  /\ UNCHANGED <<catalog, ddlCount, triggers, state, inv>>

CacheNext ==
  \/ ExecuteDDL
  \/ \E i \in Invokers : InvalidateStart(i)
  \/ \E i \in Invokers : LookupTables(i)
  \/ \E i \in Invokers : BuildTables(i)
  \/ \E i \in Invokers : BuildViews(i)
  \/ \E r \in Readers : GetTable(r)
  \/ \E r \in Readers : GetView(r)
  \/ \E r \in Readers : FmtDebug(r)

\* ---- claims on the cache ----

\* A snapshot is whole when its views were built against exactly the table
\* list its tables were built from (one invalidate_all or new produced both).
Coherent(s) == \A v \in s.views : TableMap(v.tables) = s.tables

\* C1: every read of the cache (get_table, get_view, or the tables and views
\* read together under one read guard) is served from a whole snapshot: the
\* cache never holds the tables of one rebuild with the views of another.
C1_NoTornSnapshot ==
  /\ Coherent(state)
  /\ \A r \in Readers :
       /\ got[r].kind = "debug" => Coherent(got[r].val)
       /\ got[r].kind = "table" => \A m \in got[r].val : m \in TableMap({m.schema})
       /\ got[r].kind = "view" => \A m \in got[r].val : Coherent(SwapState(TableMap(m.tables), {m}))

\* A reader has seen a swapped-in snapshot (new tables and new views) while
\* another invalidate_all is in flight.
C1_Witness ==
  \E r \in Readers :
    /\ got[r].kind = "debug"
    /\ got[r].val.views # {}
    /\ got[r].val.tables # FreshState(InitCatalog).tables
    /\ got[r].val.views # FreshState(InitCatalog).views
    /\ \E i \in Invokers : inv[i].pc = "build_views"

\* C2: a step of an invalidate_all call that does not complete the call with
\* Ok leaves the cache state as it was; a failing call returns the error.
C2_FailedInvalidateKeepsState ==
  [][\A i \in Invokers :
       (inv'[i] # inv[i] /\ inv'[i].ret # "ok") =>
          /\ state' = state
          /\ (inv[i].pc # "idle" /\ inv'[i].pc = "idle" => inv'[i].ret = "err")]_vars

\* An invalidate_all call has returned an error after some call installed
\* triggers, the catalog has changed since the cache was built, and the cache
\* still holds the snapshot it was constructed with.
C2_Witness ==
  \E i \in Invokers :
    /\ inv[i].ret = "err"
    /\ catalog # InitCatalog
    /\ state = FreshState(InitCatalog)
    /\ triggers # {}

\***************************************************************************
\* Resting values of the subsystems a specification leaves alone
\***************************************************************************

RecordIdle ==
  /\ build = "query_builder"
  /\ rows = <<>>
  /\ store = {}
  /\ ledger = {}
  /\ nextPath = 0
  /\ calls = 0
  /\ op = <<>>
  /\ returned = <<>>

FnIdle ==
  /\ fnIn = None
  /\ fnOut = None
  /\ pushed = None
  /\ lazy = None

AlterIdle ==
  /\ live = {}
  /\ migrations = {}
  /\ config = <<>>
  /\ alter = None

SchemaIdle == registry = None

SpecCacheInit == CacheInit /\ RecordIdle /\ FnIdle /\ AlterIdle /\ SchemaIdle
SpecCacheNext == CacheNext /\ UNCHANGED recordVars /\ UNCHANGED fnVars /\ UNCHANGED alterVars /\ UNCHANGED schemaVars
SpecCache == SpecCacheInit /\ [][SpecCacheNext]_vars

\***************************************************************************
\* Query builders over one record table with a std.FileUploads column
\***************************************************************************

\* Bound: number of object paths FileUploadInput::consume hands out in a run.
MaxPaths == 2

\* Bound: number of query-builder calls in a run.
MaxCalls == 2

Keys == {1, 2}
FileCounts == {0, 1, 2}
\* A column value is JSON text, or NULL; a key may have no row at all.
NoRow == [schema |-> "NoRow", paths |-> {}]
Null == [schema |-> "NULL", paths |-> {}]
RecordTable == <<"main", "t">>

\* The two versions of the query builders under src/.
Builds == {"query_builder", "json_to_sql"}

\* ConflictResolutionStrategy, as conflict_resolution_clause renders it
Policies == {"", "OR ABORT", "OR ROLLBACK", "OR FAIL", "OR IGNORE", "OR REPLACE"}

\* The errors the statement of an insert can end with: an engine error, the
\* extractor's error, or rusqlite::Error::QueryReturnedNoRows.
SqlErrors == {"Sql", "Extract", "QueryReturnedNoRows"}

\* serde_json::to_string(&FileUploads(..)): the text stored in the column
ToJson(paths) == [schema |-> "std.FileUploads", paths |-> paths]

\* serde_json::from_str::<FileUploads>(..): NULL holds no descriptor
FromJson(text) == IF text = Null THEN {} ELSE text.paths

\* The object paths the committed rows reference.
Referenced(rs) == UNION {FromJson(rs[k]) : k \in {x \in Keys : rs[x] # NoRow}}

\* The object paths the entries of _file_deletions name.
Scheduled(lg) == UNION {FromJson(e.json) : e \in lg}

IdleOp ==
  [kind |-> "none", pc |-> "idle", items |-> <<>>, files |-> <<>>,
   setsFile |-> FALSE, old |-> Null, ret |-> "none", stmt |-> "none"]

\* What the last call that returned gave back: the kind of call, its value,
\* what its statement did ("none": not reached, "failed", "norow": ran and
\* touched no row, "row": stored and committed), and the number of cleanup
\* deletes it attempted.
NoResult == [kind |-> "none", ret |-> "none", stmt |-> "none", attempts |-> 0]

\* The catalog the record table lives in: a table of the main database with a
\* file column, on which SchemaMetadataCache::new installed the triggers.
RecordCatalog ==
  { CatalogRow([db |-> "main", type |-> "table", name |-> "t", parses |-> TRUE, file |-> TRUE], 0) }

RecordInit ==
  /\ build \in Builds
  /\ rows = [k \in Keys |-> NoRow]
  /\ store = {}
  /\ ledger = {}
  /\ nextPath = 0
  /\ calls = 0
  /\ op = IdleOp
  /\ returned = NoResult

\* Params::from on a request carrying n files: consume() gives each a new path.
FreshPaths(n) == [k \in 1..n |-> nextPath + k]

NewValue(n) == IF n = 0 THEN Null ELSE ToJson({nextPath + k : k \in 1..n})

CanStart == op.pc = "idle" /\ calls < MaxCalls

Call(kind, items, files, setsFile) ==
  /\ op' = [IdleOp EXCEPT !.kind = kind, !.items = items, !.files = files,
                                            !.setsFile = setsFile,
                                            !.pc = IF files = <<>> THEN "sql" ELSE "write"]
  /\ calls' = calls + 1
  /\ UNCHANGED returned

\* The call returns: its arguments and locals are dropped.
Return(ret, stmt, attempts) ==
  /\ op' = IdleOp
  /\ returned' = [kind |-> op.kind, ret |-> ret, stmt |-> stmt, attempts |-> attempts]

\* The call goes on to its next step.
Goto(pc, stmt) ==
  /\ op' = [op EXCEPT !.pc = pc, !.stmt = stmt]
  /\ UNCHANGED returned

\* InsertQueryBuilder::run is called with the Params of one row.
InsertStart ==
  /\ CanStart
  /\ \E pk \in Keys, n \in FileCounts :
       /\ nextPath + n <= MaxPaths
       /\ Call("insert", <<[pk |-> pk, val |-> NewValue(n)]>>, FreshPaths(n), n > 0)
       /\ nextPath' = nextPath + n
  /\ UNCHANGED <<build, rows, store, ledger>>

\* InsertQueryBuilder::run_bulk is called with a list of two Params; all_files
\* is the concatenation of their files.
BulkStart ==
  /\ CanStart
  /\ \E pk1 \in Keys, pk2 \in Keys, n1 \in {0, 1}, n2 \in {0, 1} :
       /\ nextPath + n1 + n2 <= MaxPaths
       /\ Call("bulk",
               << [pk |-> pk1, val |-> IF n1 = 0 THEN Null ELSE ToJson({nextPath + 1})],
                  [pk |-> pk2, val |-> IF n2 = 0 THEN Null ELSE ToJson({nextPath + n1 + 1})] >>,
               FreshPaths(n1 + n2), n1 + n2 > 0)
       /\ nextPath' = nextPath + n1 + n2
  /\ UNCHANGED <<build, rows, store, ledger>>

\* for (metadata, content) in &mut files { write_file(..).await?; }
\* The loop is one step, since no other call touches paths that are not yet
\* referenced: either every object is written, or the k-th write_file fails
\* after k - 1 objects were written and its error is returned at once.
Prefix(files, k) == {files[i] : i \in 1..k}

\* Mutant: a failed write_file is ignored and the call goes on to its statement.
WriteFilesGoesOn ==
  /\ op.pc = "write"
  /\ \E k \in 0..Len(op.files) :
       /\ store' = store \cup Prefix(op.files, k)
       /\ Goto("sql", "none")
  /\ UNCHANGED <<build, rows, ledger, nextPath, calls>>

WriteFiles ==
  /\ op.pc = "write"
  /\ \E k \in 0..Len(op.files) :
       /\ store' = store \cup Prefix(op.files, k)
       /\ IF k = Len(op.files)
            THEN Goto("sql", "none")
            ELSE Return("Storage", "none", 0)
  /\ UNCHANGED <<build, rows, ledger, nextPath, calls>>

\* After the statement: Ok returns; an error is kept for the return value and
\* the written files are deleted first.
AfterSql(err, stmt) ==
  IF err = "none" THEN Return("Ok", stmt, 0)
  ELSE IF op.files = <<>> THEN Return(err, stmt, 0)
  ELSE /\ op' = [op EXCEPT !.pc = "cleanup", !.ret = err, !.stmt = stmt]
       /\ UNCHANGED returned

\* The engine runs one INSERT [OR policy]: "failed" when the statement fails
\* (engine failure, or a primary-key conflict under a failing policy), "norow"
\* when OR IGNORE skips the row, "row" when the row is stored.
ExecInsert(rs, item, policy, engineOk) ==
  IF ~engineOk THEN [rows |-> rs, stmt |-> "failed"]
  ELSE IF rs[item.pk] # NoRow /\ policy = "OR IGNORE" THEN [rows |-> rs, stmt |-> "norow"]
  ELSE IF rs[item.pk] # NoRow /\ policy # "OR REPLACE" THEN [rows |-> rs, stmt |-> "failed"]
  ELSE [rows |-> [rs EXCEPT ![item.pk] = item.val], stmt |-> "row"]

\* match result.next()? { Some(row) => Ok(extractor(row)?), _ => Err(QueryReturnedNoRows) }
\* The statement yields a row only when it stored one and has a RETURNING clause.
StepResult(stmt, returning, extractOk) ==
  IF stmt = "failed" THEN "Sql"
  ELSE IF stmt = "row" /\ returning THEN (IF extractOk THEN "none" ELSE "Extract")
  ELSE "QueryReturnedNoRows"

\* InsertQueryBuilder::run: the statement runs on the connection outside any
\* transaction, so what it stored is committed when it ends without an engine
\* error, whatever the closure returns afterwards.
\* Mutant: the row a REPLACE overwrites fires the delete trigger.
InsertSqlSchedulesReplaced ==
  /\ op.kind = "insert" /\ op.pc = "sql"
  /\ \E policy \in Policies, returning \in BOOLEAN, extractOk \in BOOLEAN, engineOk \in BOOLEAN :
       LET res == ExecInsert(rows, op.items[1], policy, engineOk)
           err == StepResult(res.stmt, returning, extractOk)
           old == rows[op.items[1].pk]
       IN /\ rows' = res.rows
          /\ ledger' = IF res.stmt = "row" /\ old \notin {NoRow, Null}
                         THEN ledger \cup {[rowid |-> op.items[1].pk, json |-> old]}
                         ELSE ledger
          /\ AfterSql(err, res.stmt)
  /\ UNCHANGED <<build, store, nextPath, calls>>

InsertSql ==
  /\ op.kind = "insert" /\ op.pc = "sql"
  /\ \E policy \in Policies, returning \in BOOLEAN, extractOk \in BOOLEAN, engineOk \in BOOLEAN :
       LET res == ExecInsert(rows, op.items[1], policy, engineOk)
           err == StepResult(res.stmt, returning, extractOk)
       IN /\ rows' = res.rows
          /\ AfterSql(err, res.stmt)
  /\ UNCHANGED <<build, store, ledger, nextPath, calls>>

RECURSIVE BulkApply(_, _, _, _, _, _)
\* The loop of run_bulk inside conn.transaction(): the first statement that
\* fails, or returns no row, or whose row the extractor rejects, ends it.
BulkApply(rs, items, k, policy, returning, badRow) ==
  IF k > Len(items) THEN [rows |-> rs, err |-> "none"]
  ELSE LET res == ExecInsert(rs, items[k], policy, TRUE)
           err == StepResult(res.stmt, returning, k # badRow)
       IN IF err # "none" THEN [rows |-> rs, err |-> err]
          ELSE BulkApply(res.rows, items, k + 1, policy, returning, badRow)

\* InsertQueryBuilder::run_bulk: tx.commit() only after every row; an early
\* return drops the transaction, which rolls it back.
BulkSql ==
  /\ op.kind = "bulk" /\ op.pc = "sql"
  /\ \E policy \in Policies, returning \in BOOLEAN, engineOk \in BOOLEAN,
        badRow \in 0..Len(op.items) :
       LET res == BulkApply(rows, op.items, 1, policy, returning, badRow)
           err == IF ~engineOk THEN "Sql" ELSE res.err
       IN /\ rows' = IF err = "none" THEN res.rows ELSE rows
          /\ AfterSql(err, IF err = "none" THEN "row" ELSE "failed")
  /\ UNCHANGED <<build, store, ledger, nextPath, calls>>

\* A cleanup loop that gives up at the first delete that fails and returns
\* the object store's error.
CleanupStopsAtFailure ==
  /\ op.pc = "cleanup"
  /\ \E k \in 0..Len(op.files) :
       /\ store' = store \ Prefix(op.files, k)
       /\ IF k = Len(op.files)
            THEN Return(op.ret, op.stmt, k)
            ELSE Return("Storage", op.stmt, k + 1)
  /\ UNCHANGED <<build, rows, ledger, nextPath, calls>>

\* for (metadata, _) in &files { if let Err(err) = objectstore.delete(&path) { warn!(..) } }
\* followed by Err(err.into()) with the statement's error: a delete is
\* attempted for every file, any of them may fail, and a failure is only logged.
Cleanup ==
  /\ op.pc = "cleanup"
  /\ \E failed \in SUBSET Prefix(op.files, Len(op.files)) :
       store' = store \ (Prefix(op.files, Len(op.files)) \ failed)
  /\ Return(op.ret, op.stmt, Len(op.files))
  /\ UNCHANGED <<build, rows, ledger, nextPath, calls>>

\* A trigger that records nothing.
NoUpdateTrigger(old, new, rowid) == {}

\* AFTER UPDATE trigger of build_tables:
\*   WHEN OLD.col IS NOT NULL AND OLD.col != NEW.col  (NULL when NEW.col is NULL)
UpdateTrigger(old, new, rowid) ==
  IF RecordTable \in triggers /\ old # Null /\ new # Null /\ old # new
    THEN {[rowid |-> rowid, json |-> old]}
    ELSE {}

\* AFTER DELETE trigger of build_tables: WHEN OLD.col IS NOT NULL
DeleteTrigger(old, rowid) ==
  IF RecordTable \in triggers /\ old # Null
    THEN {[rowid |-> rowid, json |-> old]}
    ELSE {}

\* UpdateQueryBuilder::run is called: the Params set the file column to n new
\* files (n > 0), or to JSON null, or set only other columns.
UpdateStart ==
  /\ CanStart
  /\ \E pk \in Keys, n \in FileCounts, setsFile \in BOOLEAN :
       /\ nextPath + n <= MaxPaths
       /\ n > 0 => setsFile
       /\ Call("update", <<[pk |-> pk, val |-> NewValue(n)]>>, FreshPaths(n), setsFile)
       /\ nextPath' = nextPath + n
  /\ UNCHANGED <<build, rows, store, ledger>>

\* if params.column_names().is_empty() { return Ok(()); }
UpdateEmpty ==
  /\ CanStart
  /\ calls' = calls + 1
  /\ returned' = [NoResult EXCEPT !.kind = "update", !.ret = "Ok"]
  /\ UNCHANGED <<build, rows, store, ledger, nextPath, op>>

\* The engine runs UPDATE .. SET .. WHERE pk = ..: the row's file column takes
\* the new value when the Params name it, and the update trigger fires.
ExecUpdate(rs, lg, item, setsFile) ==
  LET old == rs[item.pk]
      new == IF setsFile THEN item.val ELSE old
  IN [rows |-> [rs EXCEPT ![item.pk] = new],
      ledger |-> lg \cup UpdateTrigger(old, new, item.pk)]

\* An update that deletes the row's current objects before its statement
\* runs, and whose statement then fails.
UpdateDeletesFirst ==
  /\ build = "query_builder" /\ op.kind = "update" /\ op.pc = "sql"
  /\ store' = store \ FromJson(rows[op.items[1].pk])
  /\ AfterSql("Sql", "failed")
  /\ UNCHANGED <<build, rows, ledger, nextPath, calls>>

\* query_builder.rs: query_value::<i64>("UPDATE .. RETURNING _rowid_")
\*   Ok(Some(rowid)) => delete_pending_files; Ok(None) => {}; Err => cleanup
UpdateSql_qb ==
  /\ build = "query_builder" /\ op.kind = "update" /\ op.pc = "sql"
  /\ LET it == op.items[1]
     IN \/ /\ AfterSql("Sql", "failed")
           /\ UNCHANGED <<rows, ledger>>
        \/ /\ rows[it.pk] = NoRow
           /\ Return("Ok", "norow", 0)
           /\ UNCHANGED <<rows, ledger>>
        \/ /\ rows[it.pk] # NoRow
           /\ LET res == ExecUpdate(rows, ledger, it, op.setsFile)
              IN /\ rows' = res.rows
                 /\ ledger' = res.ledger
           /\ Goto("pending", "row")
  /\ UNCHANGED <<build, store, nextPath, calls>>

\* Mutant: the transaction updates first and selects the file columns after.
UpdateTxSelectsLast ==
  /\ build = "json_to_sql" /\ op.kind = "update" /\ op.pc = "sql"
  /\ LET it == op.items[1]
     IN \/ /\ AfterSql("Sql", "failed")
           /\ UNCHANGED <<rows, ledger>>
        \/ \E bound \in BOOLEAN :
             LET found == op.files # <<>> /\ bound /\ rows[it.pk] # NoRow
                 res == IF rows[it.pk] = NoRow
                          THEN [rows |-> rows, ledger |-> ledger]
                          ELSE ExecUpdate(rows, ledger, it, op.setsFile)
             IN /\ rows' = res.rows
                /\ ledger' = res.ledger
                /\ IF found
                     THEN /\ op' = [op EXCEPT !.pc = "delete_files", !.old = res.rows[it.pk],
                                              !.stmt = "row"]
                          /\ UNCHANGED returned
                     ELSE Return("Ok", IF rows[it.pk] = NoRow THEN "norow" ELSE "row", 0)
  /\ UNCHANGED <<build, store, nextPath, calls>>

\* json_to_sql.rs row_update: one transaction that first selects the current
\* file columns (only when the Params hold file columns; the select binds
\* ":pk_column" while the statement's placeholder is ":<name of the pk column>",
\* so it finds the row only when the two coincide), then updates and commits.
UpdateTx_j2s ==
  /\ build = "json_to_sql" /\ op.kind = "update" /\ op.pc = "sql"
  /\ LET it == op.items[1]
     IN \/ /\ AfterSql("Sql", "failed")
           /\ UNCHANGED <<rows, ledger>>
        \/ \E bound \in BOOLEAN :
             LET found == op.files # <<>> /\ bound /\ rows[it.pk] # NoRow
                 res == IF rows[it.pk] = NoRow
                          THEN [rows |-> rows, ledger |-> ledger]
                          ELSE ExecUpdate(rows, ledger, it, op.setsFile)
             IN /\ rows' = res.rows
                /\ ledger' = res.ledger
                /\ IF found
                     THEN /\ op' = [op EXCEPT !.pc = "delete_files", !.old = rows[it.pk],
                                              !.stmt = "row"]
                          /\ UNCHANGED returned
                     ELSE Return("Ok", IF rows[it.pk] = NoRow THEN "norow" ELSE "row", 0)
  /\ UNCHANGED <<build, store, nextPath, calls>>

\* DeleteQueryBuilder::run is called.
DeleteStart ==
  /\ CanStart
  /\ \E pk \in Keys :
       Call("delete", <<[pk |-> pk, val |-> Null]>>, <<>>, FALSE)
  /\ UNCHANGED <<build, rows, store, ledger, nextPath>>

\* query_builder.rs: query_value("DELETE .. RETURNING _rowid_").await?
\*   .ok_or_else(|| QueryError::NotFound)?
DeleteSql_qb ==
  /\ build = "query_builder" /\ op.kind = "delete" /\ op.pc = "sql"
  /\ LET pk == op.items[1].pk
     IN \/ /\ Return("Sql", "failed", 0)
           /\ UNCHANGED <<rows, ledger>>
        \/ /\ rows[pk] = NoRow
           /\ Return("NotFound", "norow", 0)
           /\ UNCHANGED <<rows, ledger>>
        \/ /\ rows[pk] # NoRow
           /\ rows' = [rows EXCEPT ![pk] = NoRow]
           /\ ledger' = ledger \cup DeleteTrigger(rows[pk], pk)
           /\ Goto("pending", "row")
  /\ UNCHANGED <<build, store, nextPath, calls>>

\* json_to_sql.rs: query_row("DELETE .. RETURNING *").await?
\*   .ok_or_else(|| QueryError::Sql(rusqlite::Error::QueryReturnedNoRows.into()))?
DeleteSql_j2s ==
  /\ build = "json_to_sql" /\ op.kind = "delete" /\ op.pc = "sql"
  /\ LET pk == op.items[1].pk
     IN \/ /\ Return("Sql", "failed", 0)
           /\ UNCHANGED <<rows, ledger>>
        \/ /\ rows[pk] = NoRow
           /\ Return("QueryReturnedNoRows", "norow", 0)
           /\ UNCHANGED <<rows, ledger>>
        \/ /\ rows[pk] # NoRow
           /\ rows' = [rows EXCEPT ![pk] = NoRow]
           /\ ledger' = ledger \cup DeleteTrigger(rows[pk], pk)
           /\ op' = [op EXCEPT !.pc = "delete_files", !.old = rows[pk], !.stmt = "row"]
           /\ UNCHANGED returned
  /\ UNCHANGED <<build, store, nextPath, calls>>

\* records/files.rs delete_pending_files(state, metadata, rowid): takes the
\* row's entries out of _file_deletions and deletes their objects.
DeletePendingFiles ==
  /\ op.pc = "pending"
  /\ LET entries == {e \in ledger : e.rowid = op.items[1].pk}
     IN \/ /\ ledger' = ledger \ entries
           /\ store' = store \ Scheduled(entries)
           /\ Return("Ok", op.stmt, 0)
        \/ /\ Return("File", op.stmt, 0)
           /\ UNCHANGED <<ledger, store>>
  /\ UNCHANGED <<build, rows, nextPath, calls>>

\* records/files.rs delete_files_in_row(state, metadata, row): deletes the
\* objects the row's file columns name.
DeleteFilesInRow ==
  /\ op.pc = "delete_files"
  /\ \/ /\ store' = store \ FromJson(op.old)
        /\ Return("Ok", op.stmt, 0)
     \/ /\ Return("File", op.stmt, 0)
        /\ UNCHANGED store
  /\ UNCHANGED <<build, rows, ledger, nextPath, calls>>

\* GetFilesQueryBuilder::run: SELECT "col" .. WHERE pk = $1, then from_str.
GetFilesResult(rs, pk) ==
  IF rs[pk] = NoRow THEN [ret |-> "NotFound", read |-> {}]
  ELSE IF rs[pk] = Null THEN [ret |-> "FromSql", read |-> {}]
  ELSE [ret |-> "Ok", read |-> FromJson(rs[pk])]

RecordNext ==
  \/ InsertStart
  \/ BulkStart
  \/ WriteFiles
  \/ InsertSql
  \/ BulkSql
  \/ Cleanup
  \/ UpdateStart
  \/ UpdateEmpty
  \/ UpdateSql_qb
  \/ UpdateTx_j2s
  \/ DeleteStart
  \/ DeleteSql_qb
  \/ DeleteSql_j2s
  \/ DeletePendingFiles
  \/ DeleteFilesInRow

CacheBuilt(cat) ==
  /\ catalog = cat
  /\ ddlCount = 0
  /\ triggers = FileTriggers(LookupAllTables(cat).val)
  /\ state = FreshState(cat)
  /\ inv = [i \in Invokers |-> IdleCall]
  /\ got = [r \in Readers |-> [kind |-> "none", val |-> {}]]

SpecRecordsInit == CacheBuilt(RecordCatalog) /\ RecordInit /\ FnIdle /\ AlterIdle /\ SchemaIdle
SpecRecordsNext == RecordNext /\ UNCHANGED cacheVars /\ UNCHANGED fnVars /\ UNCHANGED alterVars /\ UNCHANGED schemaVars
SpecRecords == SpecRecordsInit /\ [][SpecRecordsNext]_vars

\***************************************************************************
\* Properties of the query builders
\***************************************************************************

\* The objects the running call wrote, or was about to write.
OwnFiles == Prefix(op.files, Len(op.files))

\* The primary key the running call addresses.
TargetKey == op.items[1].pk

\* C3: after any sequence of Insert, bulk Insert, Update and Delete calls,
\* failed ones included, every descriptor stored in a committed row names an
\* object that exists in the object store.
C3_CommittedRowsReferenceStoredObjects ==
  Referenced(rows) \subseteq store

\* C4: when the statement of an Insert fails after its files were written, a
\* delete is attempted for every one of the files and the Insert returns the
\* statement's error, whether or not the deletes succeed.
C4_InsertCleanupKeepsSqlError ==
  [][ /\ (op.kind = "insert" /\ op.pc = "sql" /\ op.files # <<>> /\ op'.pc = "idle")
           => returned'.ret = "Ok"
      /\ (op.kind = "insert" /\ op.pc = "cleanup")
           => /\ op'.pc = "idle"
              /\ returned'.attempts = Len(op.files)
              /\ returned'.ret = op.ret
              /\ returned'.ret \in SqlErrors
              /\ store \ store' \subseteq OwnFiles ]_vars

\* An Insert of two files failed with the engine's error; both deletes were
\* attempted and at least one of them failed, leaving its object behind.
C4_Witness ==
  /\ returned.kind = "insert"
  /\ returned.ret = "Sql"
  /\ returned.attempts = 2
  /\ store # {}
  /\ Referenced(rows) = {}
  /\ calls = 1

\* C5: a bulk insert commits every row of the list or none, and whenever it
\* fails a delete is attempted for the files of every row of the list.
C5_BulkAllOrNothingWithFullCleanup ==
  [][ op.kind = "bulk" =>
        /\ rows' # rows =>
             /\ returned'.ret = "Ok"
             /\ \A i \in 1..Len(op.items) : rows'[op.items[i].pk] # NoRow
        /\ (op'.pc = "idle" /\ returned'.ret # "Ok")
             => returned'.attempts = Len(op.files) ]_vars

\* C6: Update and Delete delete or schedule a row's previous objects only
\* after their statement committed; a call whose statement failed or matched
\* no row deletes no object that existed before it; and no object a row
\* still references is deleted.
C6_OldFilesGoOnlyAfterCommit ==
  [][ op.kind \in {"update", "delete"} =>
        /\ (store \ store') \cap Referenced(rows') = {}
        /\ (store \ store') \ OwnFiles # {} => op.stmt = "row"
        /\ ledger' \ ledger # {} => rows' # rows ]_vars

\* A Delete matched a row that held a file, committed, and then removed the
\* object; nothing else was ever stored.
C6_Witness ==
  /\ returned.kind = "delete"
  /\ returned.ret = "Ok"
  /\ returned.stmt = "row"
  /\ nextPath = 1
  /\ store = {}
  /\ calls = 2

\* C7: a Delete whose primary-key value matches no row returns NotFound, and
\* changes neither the table nor the ledger nor the object store.
C7_DeleteOfNoRowIsNotFound ==
  [][ (op.kind = "delete" /\ op.pc = "sql" /\ rows[TargetKey] = NoRow /\ op' # op)
        => /\ returned'.stmt = "norow" => returned'.ret = "NotFound"
           /\ rows' = rows
           /\ ledger' = ledger
           /\ store' = store ]_vars

\* C8: when an Update gives an existing row's file column new descriptors,
\* the row reads back the new descriptors from the commit on, until the
\* Update returns, and the descriptors it replaced are in the ledger; ledger
\* entries leave the ledger only together with their objects.
C8_ReplacedFileIsScheduledAndNewIsReadable ==
  [][ /\ (op.kind = "update" /\ op.pc = "sql" /\ op.files # <<>> /\ rows' # rows)
           => /\ GetFilesResult(rows', TargetKey) = [ret |-> "Ok", read |-> OwnFiles]
              /\ FromJson(rows[TargetKey]) \subseteq Scheduled(ledger')
      /\ (op.kind = "update" /\ op.stmt = "row") => rows' = rows
      /\ \A e \in ledger \ ledger' : FromJson(e.json) \cap store' = {} ]_vars

\* An Update replaced object 1 by object 2 in a row and returned success:
\* the row reads object 2, and object 1 is gone from the store.
C8_Witness ==
  /\ returned.kind = "update"
  /\ returned.ret = "Ok"
  /\ returned.stmt = "row"
  /\ \E k \in Keys : GetFilesResult(rows, k) = [ret |-> "Ok", read |-> {2}]
  /\ store = {2}

\***************************************************************************
\* Foreign-key expansion: expand_tables
\***************************************************************************

\* Bound: length of the expand list of a request.
MaxExpand == 2

\* The result slot before the function under check has run.
NotRun == [status |-> "NotRun"]

\* ColumnOption: only ForeignKey carries a table.
Opt(kind) == [kind |-> kind, foreign_table |-> ""]
ForeignKey(foreign_table) == [kind |-> "ForeignKey", foreign_table |-> foreign_table]

\* Column with its ColumnMetadata: json is the name of the column's JSON
\* schema, "" when it has none.
Col(name, data_type, options, json) ==
  [name |-> name, data_type |-> data_type, options |-> options, json |-> json]

\* The TableMetadataCache of the expansion requests: a root table whose
\* columns cover every case of expand_tables, a foreign table with a record
\* primary key, and one without. No table is named "ghost".
ExpandCache ==
  { [name |-> "root",
     columns |-> << Col("id", "Integer", <<Opt("PrimaryKey")>>, ""),
                    Col("fk", "Integer", <<Opt("NotNull"), ForeignKey("foreign")>>, ""),
                    Col("fk2", "Integer", <<ForeignKey("foreign")>>, ""),
                    Col("plain", "Text", <<>>, ""),
                    Col("note", "Text", <<Opt("NotNull")>>, ""),
                    Col("fk_ghost", "Integer", <<ForeignKey("ghost")>>, ""),
                    Col("fk_nopk", "Integer", <<ForeignKey("nopk")>>, "") >>,
     record_pk_column |-> {1}],
    [name |-> "foreign",
     columns |-> << Col("id", "Integer", <<Opt("PrimaryKey")>>, ""),
                    Col("name", "Text", <<>>, "") >>,
     record_pk_column |-> {1}],
    [name |-> "nopk",
     columns |-> << Col("a", "Text", <<>>, "") >>,
     record_pk_column |-> {}] }

\* The column names a request may ask to expand.
ExpandNames == {"", "fk", "fk2", "plain", "note", "fk_ghost", "fk_nopk", "UNKNOWN"}

ExpandLists == UNION { [1..n -> ExpandNames] : n \in 0..MaxExpand }

\* TableMetadata::column_by_name
column_by_name(table, name) ==
  {c \in {table.columns[i] : i \in DOMAIN table.columns} : c.name = name}

\* Itertools::find_or_first with the predicate "is an option of this kind":
\* the first element satisfying it, or else the first element, if any.
find_or_first(seq, kind) ==
  LET hits == {i \in DOMAIN seq : seq[i].kind = kind}
  IN IF hits # {} THEN {seq[CHOOSE i \in hits : \A j \in hits : i <= j]}
     ELSE IF seq # <<>> THEN {seq[1]}
     ELSE {}

IsForeignKey(o) == o.kind = "ForeignKey"

NoExpandedTable ==
  [metadata |-> "", local_column_name |-> "", num_columns |-> 0,
   foreign_table_name |-> "", foreign_column_name |-> ""]

\* A loop body that passes over what it cannot expand instead of failing.
ExpandColumnLenient(cache, root_table, col_name) ==
  IF col_name = "" THEN [step |-> "continue", table |-> NoExpandedTable]
  ELSE IF column_by_name(root_table, col_name) = {}
    THEN [step |-> "continue", table |-> NoExpandedTable]
  ELSE LET column == CHOOSE c \in column_by_name(root_table, col_name) : TRUE
           found == find_or_first(column.options, "ForeignKey")
       IN IF found = {} \/ \E o \in found : ~IsForeignKey(o)
            THEN [step |-> "continue", table |-> NoExpandedTable]
          ELSE LET fk == CHOOSE o \in found : TRUE
               IN IF Lookup(cache, fk.foreign_table) = {}
                    THEN [step |-> "continue", table |-> NoExpandedTable]
                  ELSE LET foreign_table == CHOOSE t \in Lookup(cache, fk.foreign_table) : TRUE
                       IN IF foreign_table.record_pk_column = {}
                            THEN [step |-> "continue", table |-> NoExpandedTable]
                          ELSE LET idx == CHOOSE i \in foreign_table.record_pk_column : TRUE
                               IN [step |-> "push",
                                   table |-> [metadata |-> foreign_table.name,
                                              local_column_name |-> col_name,
                                              num_columns |-> Len(foreign_table.columns),
                                              foreign_table_name |-> fk.foreign_table,
                                              foreign_column_name |-> foreign_table.columns[idx].name]]

\* The body of the loop of expand_tables for one entry of the expand list.
ExpandColumn(cache, root_table, col_name) ==
  IF col_name = "" THEN [step |-> "continue", table |-> NoExpandedTable]
  ELSE IF column_by_name(root_table, col_name) = {}
    THEN [step |-> "return", table |-> NoExpandedTable]
  ELSE LET column == CHOOSE c \in column_by_name(root_table, col_name) : TRUE
           found == find_or_first(column.options, "ForeignKey")
       IN IF found = {} \/ \E o \in found : ~IsForeignKey(o)
            THEN [step |-> "return", table |-> NoExpandedTable]
          ELSE LET fk == CHOOSE o \in found : TRUE
               IN IF Lookup(cache, fk.foreign_table) = {}
                    THEN [step |-> "return", table |-> NoExpandedTable]
                  ELSE LET foreign_table == CHOOSE t \in Lookup(cache, fk.foreign_table) : TRUE
                       IN IF foreign_table.record_pk_column = {}
                            THEN [step |-> "return", table |-> NoExpandedTable]
                          ELSE LET idx == CHOOSE i \in foreign_table.record_pk_column : TRUE
                               IN [step |-> "push",
                                   table |-> [metadata |-> foreign_table.name,
                                              local_column_name |-> col_name,
                                              num_columns |-> Len(foreign_table.columns),
                                              foreign_table_name |-> fk.foreign_table,
                                              foreign_column_name |-> foreign_table.columns[idx].name]]

ApiRequiresTable == [status |-> "ApiRequiresTable", tables |-> <<>>]

RECURSIVE ExpandLoop(_, _, _, _, _)
\* for col_name in expand { .. }; return Ok(expanded_tables)
ExpandLoop(cache, root_table, expand, i, expanded_tables) ==
  IF i > Len(expand) THEN [status |-> "Ok", tables |-> expanded_tables]
  ELSE LET r == ExpandColumn(cache, root_table, expand[i])
       IN IF r.step = "return" THEN ApiRequiresTable
          ELSE ExpandLoop(cache, root_table, expand, i + 1,
                          IF r.step = "push" THEN Append(expanded_tables, r.table)
                                             ELSE expanded_tables)

expand_tables(table_metadata, table_name, expand) ==
  IF Lookup(table_metadata, table_name) = {} THEN ApiRequiresTable
  ELSE ExpandLoop(table_metadata, CHOOSE t \in Lookup(table_metadata, table_name) : TRUE,
                  expand, 1, <<>>)

ExpandInit ==
  /\ fnIn \in {[table_name |-> t, expand |-> e] : t \in {"root", "ghost"}, e \in ExpandLists}
  /\ fnOut = NotRun
  /\ pushed = None
  /\ lazy = None

\* A record read or list request calls expand_tables with its expand list.
ExpandTables ==
  /\ fnOut = NotRun
  /\ fnOut' = expand_tables(ExpandCache, fnIn.table_name, fnIn.expand)
  /\ UNCHANGED <<fnIn, pushed, lazy>>

SpecExpandInit == CacheBuilt(InitCatalog) /\ RecordIdle /\ ExpandInit /\ AlterIdle /\ SchemaIdle
SpecExpandNext == ExpandTables /\ UNCHANGED cacheVars /\ UNCHANGED recordVars /\ UNCHANGED alterVars /\ UNCHANGED schemaVars
SpecExpand == SpecExpandInit /\ [][SpecExpandNext]_vars

\* A column of the root table that can be expanded: it carries a foreign key
\* whose target table is in the cache and has a record primary key.
Expandable(name) ==
  \E t \in ExpandCache :
    /\ t.name = "root"
    /\ \E i \in DOMAIN t.columns :
         /\ t.columns[i].name = name
         /\ \E k \in DOMAIN t.columns[i].options :
              /\ t.columns[i].options[k].kind = "ForeignKey"
              /\ \E f \in ExpandCache :
                   /\ f.name = t.columns[i].options[k].foreign_table
                   /\ f.record_pk_column # {}

NonEmptyName(name) == name # ""

\* C9: an expand list naming a column that does not exist in the root table,
\* or has no foreign key, or whose foreign key's target is unknown or has no
\* record primary key, is rejected as a whole with an error and no list of
\* expanded tables; only empty names are skipped, every other name is expanded.
C9_BadExpansionRejectedWhole ==
  (fnOut # NotRun /\ fnIn.table_name = "root") =>
     IF \E i \in DOMAIN fnIn.expand : fnIn.expand[i] # "" /\ ~Expandable(fnIn.expand[i])
       THEN fnOut.status = "ApiRequiresTable" /\ fnOut.tables = <<>>
       ELSE /\ fnOut.status = "Ok"
            /\ [i \in DOMAIN fnOut.tables |-> fnOut.tables[i].local_column_name]
                 = SelectSeq(fnIn.expand, NonEmptyName)

\* A request that names an expandable column and then an unknown one was
\* rejected, with nothing expanded.
C9_Witness ==
  /\ fnIn = [table_name |-> "root", expand |-> <<"fk", "UNKNOWN">>]
  /\ fnOut = ApiRequiresTable

\***************************************************************************
\* The parameter builder: Params::from
\***************************************************************************

\* Bound: number of entries of the JSON object of a request.
MaxKeys == 2

\* serde_json::Value. n: the number, the truth value, or the identity of an
\* upload object; s: the string; a: the elements of an array.
JNull == [t |-> "null", n |-> 0, s |-> "", a |-> <<>>]
JBool(b) == [t |-> "bool", n |-> IF b THEN 1 ELSE 0, s |-> "", a |-> <<>>]
JNum(n) == [t |-> "i64", n |-> n, s |-> "", a |-> <<>>]
JFloat(n) == [t |-> "f64", n |-> n, s |-> "", a |-> <<>>]
\* A number serde_json holds as u64 (N::PosInt): a holds its four 16-bit limbs,
\* the most significant first.
JPosInt(limbs) == [t |-> "u64", n |-> 0, s |-> "", a |-> limbs]
JStr(s) == [t |-> "string", n |-> 0, s |-> s, a |-> <<>>]
JArr(a) == [t |-> "array", n |-> 0, s |-> "", a |-> a]
\* An object: a FileUploadInput with identity n > 0 and optional field name,
\* or, with n = 0, an object that does not deserialize into one.
JObj(n, name) == [t |-> "object", n |-> n, s |-> name, a |-> <<>>]

\* trailbase_sqlite::Value. b: the bytes of a Blob, or the identities of the
\* uploads a serialized FileUpload(s) text describes.
SqlNull == [t |-> "Null", n |-> 0, s |-> "", b |-> <<>>]
SqlInteger(n) == [t |-> "Integer", n |-> n, s |-> "", b |-> <<>>]
SqlReal(n) == [t |-> "Real", n |-> n, s |-> "", b |-> <<>>]
SqlText(s) == [t |-> "Text", n |-> 0, s |-> s, b |-> <<>>]
SqlBlob(b) == [t |-> "Blob", n |-> 0, s |-> "", b |-> b]
\* serde_json::to_string(&metadata) for FileUpload / FileUploads
SqlFileText(schema, ids) == [t |-> "Text", n |-> 0, s |-> schema, b |-> ids]

\* The record table of the requests.
ParamsTable ==
  [name |-> "t",
   columns |-> << Col("id", "Integer", <<Opt("PrimaryKey")>>, ""),
                  Col("blob", "Blob", <<>>, ""),
                  Col("file", "Text", <<>>, "std.FileUpload"),
                  Col("files", "Text", <<>>, "std.FileUploads") >>,
   record_pk_column |-> {1}]

JsonKeys == {"id", "blob", "file", "files", "zz"}

JsonValues ==
  { JNull, JNum(7), JStr("7"), JStr("AQI="),
    JArr(<<JNum(1), JNum(2)>>), JArr(<<JNum(1), JNum(300)>>),
    JObj(1, ""), JArr(<<JObj(2, "")>>) }

JsonEntries == {[key |-> k, value |-> v] : k \in JsonKeys, v \in JsonValues}

\* serde_json::Map: no key occurs twice.
JsonRows ==
  UNION { {row \in [1..n -> JsonEntries] :
             \A i \in 1..n, j \in 1..n : row[i].key = row[j].key => i = j}
          : n \in 0..MaxKeys }

\* Option<Vec<FileUploadInput>>: the multipart uploads of the request.
MultipartMenu ==
  { [some |-> FALSE, files |-> <<>>],
    [some |-> TRUE, files |-> <<JObj(8, "file")>>],
    [some |-> TRUE, files |-> <<JObj(9, "zz")>>] }

\* str::parse::<i64>
ParseI64(s) == IF s = "7" THEN {7} ELSE {}

\* BASE64_URL_SAFE.decode
Base64Decode(s) == IF s = "AQI=" THEN {<<1, 2>>} ELSE {}

\* uuid::Uuid::parse_str: no string of the requests is a UUID
ParseUuid(s) == {}

\* str::len
StrLen(s) == IF s = "7" THEN 1 ELSE IF s = "AQI=" THEN 4 ELSE 0

\* String::into_bytes
StrBytes(s) == IF s = "7" THEN <<55>> ELSE IF s = "AQI=" THEN <<65, 81, 73, 61>> ELSE <<>>

TextTypes ==
  {"Any", "Text", "JSON", "Character", "Varchar", "VaryingCharacter", "NChar",
   "NativeCharacter", "NVarChar", "Clob"}
IntegerTypes ==
  {"Integer", "Numeric", "Int", "TinyInt", "SmallInt", "MediumInt", "BigInt",
   "UnignedBigInt", "Int2", "Int4", "Int8", "Boolean", "Decimal", "Date", "DateTime"}
RealTypes == {"Real", "Double", "DoublePrecision", "Float"}

ValueOk(param) == [status |-> "Ok", param |-> param]
ValueErr(e) == [status |-> e, param |-> SqlNull]

\* Params::prefix_colon
prefix_colon(s) == <<":", s>>

RECURSIVE BlobLoopWraps(_, _, _)
\* Mutant: the number is cast to a byte (`as u8`) instead of converted.
BlobLoopWraps(arr, i, byte_array) ==
  IF i > Len(arr) THEN ValueOk(SqlBlob(byte_array))
  ELSE IF arr[i].t = "i64"
    THEN BlobLoopWraps(arr, i + 1, Append(byte_array, arr[i].n % 256))
  ELSE IF arr[i].t = "f64" THEN ValueErr("UnexpectedType")
  ELSE ValueErr("InhomogenousArray")

RECURSIVE BlobLoop(_, _, _)
\* the loop of try_json_array_to_blob
BlobLoop(arr, i, byte_array) ==
  IF i > Len(arr) THEN ValueOk(SqlBlob(byte_array))
  ELSE IF arr[i].t = "i64"
    THEN IF arr[i].n < 0 \/ arr[i].n > 255 THEN ValueErr("UnexpectedType")
         ELSE BlobLoop(arr, i + 1, Append(byte_array, arr[i].n))
  ELSE IF arr[i].t = "f64" THEN ValueErr("UnexpectedType")
  ELSE ValueErr("InhomogenousArray")

try_json_array_to_blob(arr) == BlobLoop(arr, 1, <<>>)

json_string_to_value(data_type, value) ==
  IF data_type = "Null" THEN ValueOk(SqlNull)
  ELSE IF data_type \in TextTypes THEN ValueOk(SqlText(value))
  ELSE IF data_type = "Blob"
    THEN LET bytes == IF StrLen(value) = 36 /\ ParseUuid(value) # {}
                        THEN ParseUuid(value)
                        ELSE Base64Decode(value)
         IN IF bytes = {} THEN ValueErr("Decode")
            ELSE ValueOk(SqlBlob(CHOOSE b \in bytes : TRUE))
  ELSE IF data_type \in IntegerTypes
    THEN IF ParseI64(value) = {} THEN ValueErr("ParseInt")
         ELSE ValueOk(SqlInteger(CHOOSE n \in ParseI64(value) : TRUE))
  ELSE IF data_type \in RealTypes
    THEN IF ParseI64(value) = {} THEN ValueErr("ParseFloat")
         ELSE ValueOk(SqlReal(CHOOSE n \in ParseI64(value) : TRUE))
  ELSE IF data_type = "JSONB" THEN ValueOk(SqlBlob(StrBytes(value)))
  ELSE ValueErr("UnexpectedType")

TwoTo15 == 32768
TwoTo16 == 65536

\* A 64-bit integer as sign and magnitude, the magnitude in 16-bit limbs.
Wide(neg, mag) == [neg |-> neg, mag |-> mag]

\* Number::as_i64 on a PosInt: Some(n) when n <= i64::MAX
as_i64(limbs) == IF limbs[1] < TwoTo15 THEN {Wide(FALSE, limbs)} ELSE {}

\* Number::as_u64 on a PosInt
as_u64(limbs) == {limbs}

RECURSIVE AddOne(_, _)
\* limbs + 1 modulo 2^64, the carry running up from limb i
AddOne(limbs, i) ==
  IF i = 0 THEN limbs
  ELSE IF limbs[i] = TwoTo16 - 1 THEN AddOne([limbs EXCEPT ![i] = 0], i - 1)
  ELSE [limbs EXCEPT ![i] = @ + 1]

\* n as i64 for n: u64: the same 64 bits read as two's complement, so that
\* n >= 2^63 becomes n - 2^64, of magnitude 2^64 - n = ~n + 1.
cast_u64_as_i64(limbs) ==
  IF limbs[1] < TwoTo15 THEN Wide(FALSE, limbs)
  ELSE Wide(TRUE, AddOne([i \in DOMAIN limbs |-> TwoTo16 - 1 - limbs[i]], Len(limbs)))

simple_json_value_to_param(col_type, value) ==
  IF value.t = "object" THEN ValueErr("UnexpectedType")
  ELSE IF value.t = "array"
    THEN IF col_type # "Blob" THEN ValueErr("UnexpectedType")
         ELSE try_json_array_to_blob(value.a)
  ELSE IF value.t = "null" THEN ValueOk(SqlNull)
  ELSE IF value.t = "bool" THEN ValueOk(SqlInteger(value.n))
  ELSE IF value.t = "string" THEN json_string_to_value(col_type, value.s)
  ELSE IF value.t = "i64" THEN ValueOk(SqlInteger(value.n))
  ELSE IF value.t = "u64"
    THEN IF as_i64(value.a) # {} THEN ValueOk(SqlInteger(CHOOSE n \in as_i64(value.a) : TRUE))
         ELSE ValueOk(SqlInteger(cast_u64_as_i64(CHOOSE n \in as_u64(value.a) : TRUE)))
  ELSE ValueOk(SqlReal(value.n))

\* FileUploadInput::consume on a deserialized upload: its metadata, with the
\* field name it came with.
Consume(upload) == [id |-> upload.n, name |-> upload.s]

ExtractOk(param, some, files) ==
  [status |-> "Ok", param |-> param, some |-> some, files |-> files]
ExtractErr(e) == [status |-> e, param |-> SqlNull, some |-> FALSE, files |-> <<>>]
ExtractSimple(r) ==
  IF r.status = "Ok" THEN ExtractOk(r.param, FALSE, <<>>) ELSE ExtractErr(r.status)

\* extract_params_and_files_from_json; validates is the answer of the
\* column's JSON schema validator for this value.
extract_params_and_files_from_json(col, value, validates) ==
  IF value.t = "object"
    THEN IF col.data_type # "Text" THEN ExtractErr("NestedObject")
         ELSE IF col.json = "" THEN ExtractErr("NestedObject")
         ELSE IF col.json = "std.FileUpload"
           THEN IF value.n = 0 THEN ExtractErr("JsonSerialization")
                ELSE ExtractOk(SqlFileText("std.FileUpload", <<value.n>>), TRUE, <<Consume(value)>>)
         ELSE IF validates THEN ExtractOk(SqlText("object"), FALSE, <<>>)
         ELSE ExtractErr("JsonValidation")
  ELSE IF value.t = "array"
    THEN IF col.data_type = "Blob" THEN ExtractSimple(try_json_array_to_blob(value.a))
         ELSE IF col.data_type = "Text" /\ col.json # ""
           THEN IF col.json = "std.FileUploads"
                  THEN IF \E i \in DOMAIN value.a : value.a[i].t # "object" \/ value.a[i].n = 0
                         THEN ExtractErr("JsonSerialization")
                         ELSE ExtractOk(SqlFileText("std.FileUploads",
                                                    [i \in DOMAIN value.a |-> value.a[i].n]),
                                        TRUE,
                                        [i \in DOMAIN value.a |-> Consume(value.a[i])])
                ELSE IF validates THEN ExtractOk(SqlText("array"), FALSE, <<>>)
                ELSE ExtractErr("JsonValidation")
         ELSE ExtractErr("NestedArray")
  ELSE ExtractSimple(simple_json_value_to_param(col.data_type, value))

EmptyParams(table_name) ==
  [status |-> "Ok", table_name |-> table_name, named_params |-> <<>>,
   col_names |-> <<>>, files |-> <<>>, file_col_names |-> <<>>]

ParamsErr(e) ==
  [status |-> e, table_name |-> "", named_params |-> <<>>,
   col_names |-> <<>>, files |-> <<>>, file_col_names |-> <<>>]

\* Mutant: the placeholder is pushed, the column name is not.
push_param_without_col_name(params, col, value) ==
  [params EXCEPT !.named_params = Append(@, [name |-> prefix_colon(col), value |-> value])]

\* Params::push_param
push_param(params, col, value) ==
  [params EXCEPT !.named_params = Append(@, [name |-> prefix_colon(col), value |-> value]),
                 !.col_names = Append(@, col)]

\* A loop body that refuses a key matching no column.
FromEntryStrict(metadata, params, entry, validates) ==
  IF column_by_name(metadata, entry.key) = {} THEN ParamsErr("Column")
  ELSE LET col == CHOOSE c \in column_by_name(metadata, entry.key) : TRUE
           r == extract_params_and_files_from_json(col, entry.value, validates)
       IN IF r.status # "Ok" THEN ParamsErr(r.status)
          ELSE push_param(
                 IF r.some
                   THEN [params EXCEPT !.files = @ \o r.files,
                                       !.file_col_names = Append(@, entry.key)]
                   ELSE params,
                 entry.key, r.param)

\* The body of the loop of Params::from over the entries of the JSON object.
FromEntry(metadata, params, entry, validates) ==
  IF column_by_name(metadata, entry.key) = {} THEN params
  ELSE LET col == CHOOSE c \in column_by_name(metadata, entry.key) : TRUE
           r == extract_params_and_files_from_json(col, entry.value, validates)
       IN IF r.status # "Ok" THEN ParamsErr(r.status)
          ELSE push_param(
                 IF r.some
                   THEN [params EXCEPT !.files = @ \o r.files,
                                       !.file_col_names = Append(@, entry.key)]
                   ELSE params,
                 entry.key, r.param)

RECURSIVE FromLoop(_, _, _, _, _)
\* for (key, value) in json { .. }
FromLoop(metadata, params, json, i, validates) ==
  IF i > Len(json) \/ params.status # "Ok" THEN params
  ELSE FromLoop(metadata, FromEntry(metadata, params, json[i], validates), json, i + 1, validates)

RECURSIVE MultipartLoop(_, _, _, _, _)
\* the loop of append_multipart_files over the consumed uploads; uploaded is
\* the set of std.FileUpload columns that already received a file.
RECURSIVE MultipartLoopWithoutCollision(_, _, _, _, _)
\* Mutant: a single-file column takes every upload it is given.
MultipartLoopWithoutCollision(metadata, params, files, i, uploaded) ==
  IF i > Len(files) THEN params
  ELSE IF column_by_name(metadata, files[i].name) = {}
    THEN MultipartLoopWithoutCollision(metadata, params, files, i + 1, uploaded)
  ELSE LET col == CHOOSE c \in column_by_name(metadata, files[i].name) : TRUE
           withFile == [push_param(params, col.name,
                                 SqlFileText("std.FileUpload", <<files[i].id>>))
                        EXCEPT !.file_col_names = Append(@, col.name)]
       IN IF col.json \in {"std.FileUpload", "std.FileUploads"}
            THEN MultipartLoopWithoutCollision(metadata, withFile, files, i + 1, uploaded)
          ELSE ParamsErr("Column")

MultipartLoop(metadata, params, files, i, uploaded) ==
  IF i > Len(files) THEN params
  ELSE IF column_by_name(metadata, files[i].name) = {}
    THEN MultipartLoop(metadata, params, files, i + 1, uploaded)
  ELSE LET col == CHOOSE c \in column_by_name(metadata, files[i].name) : TRUE
           withFile == [push_param(params, col.name,
                                 SqlFileText("std.FileUpload", <<files[i].id>>))
                        EXCEPT !.file_col_names = Append(@, col.name)]
       IN IF col.json = "" THEN ParamsErr("Column")
          ELSE IF col.json = "std.FileUpload"
            THEN IF col.name \in uploaded THEN ParamsErr("Column")
                 ELSE MultipartLoop(metadata, withFile, files, i + 1, uploaded \cup {col.name})
          ELSE IF col.json = "std.FileUploads"
            THEN MultipartLoop(metadata, withFile, files, i + 1, uploaded)
          ELSE ParamsErr("Column")

\* Params::append_multipart_files: every upload needs a field name; the
\* uploads are matched to columns; then all of them are appended to files.
append_multipart_files(params, metadata, multipart_files) ==
  IF \E i \in DOMAIN multipart_files : multipart_files[i].s = "" THEN ParamsErr("Column")
  ELSE LET files == [i \in DOMAIN multipart_files |-> Consume(multipart_files[i])]
           r == MultipartLoop(metadata, params, files, 1, {})
       IN IF r.status # "Ok" THEN r
          ELSE [r EXCEPT !.files = @ \o files]

\* Params::from(metadata, json, multipart_files)
ParamsFrom(metadata, json, multipart, validates) ==
  LET params == FromLoop(metadata, EmptyParams(metadata.name), json, 1, validates)
  IN IF params.status # "Ok" THEN params
     ELSE IF multipart.some THEN append_multipart_files(params, metadata, multipart.files)
     ELSE params

ParamsInit ==
  /\ fnIn \in {[json |-> j, multipart |-> m, validates |-> v] :
                 j \in JsonRows, m \in MultipartMenu, v \in BOOLEAN}
  /\ fnOut = NotRun
  /\ pushed = NotRun
  /\ lazy = None

\* A request handler builds the Params of its request.
BuildParams ==
  /\ fnOut = NotRun
  /\ fnOut' = ParamsFrom(ParamsTable, fnIn.json, fnIn.multipart, fnIn.validates)
  /\ UNCHANGED <<fnIn, pushed, lazy>>

\* UpdateQueryBuilder::run: params.push_param(pk_column, pk_value) on the
\* Params the handler built; a failed Params::from has returned through `?`.
PushParam ==
  /\ fnOut # NotRun
  /\ fnOut.status = "Ok"
  /\ pushed = NotRun
  /\ pushed' = push_param(fnOut, "id", SqlInteger(7))
  /\ UNCHANGED <<fnIn, fnOut, lazy>>

ParamsNext == BuildParams \/ PushParam

SpecParamsInit == CacheBuilt(InitCatalog) /\ RecordIdle /\ ParamsInit /\ AlterIdle /\ SchemaIdle
SpecParamsNext == ParamsNext /\ UNCHANGED cacheVars /\ UNCHANGED recordVars /\ UNCHANGED alterVars /\ UNCHANGED schemaVars
SpecParams == SpecParamsInit /\ [][SpecParamsNext]_vars

KnownKey(entry) == column_by_name(ParamsTable, entry.key) # {}

\* C10: keys of the JSON object that match no column never make Params::from
\* fail and add no parameter: the result is the one built from the same
\* object without those keys, and an object of unknown keys alone gives the
\* empty Params.
C10_UnknownKeysAreDropped ==
  fnOut # NotRun =>
    /\ fnOut = ParamsFrom(ParamsTable, SelectSeq(fnIn.json, KnownKey),
                          fnIn.multipart, fnIn.validates)
    /\ (SelectSeq(fnIn.json, KnownKey) = <<>> /\ ~fnIn.multipart.some)
         => fnOut = EmptyParams("t")

\* An object with a known and an unknown key was built into Params holding
\* the known column alone.
C10_Witness ==
  /\ fnOut # NotRun
  /\ fnIn.json = << [key |-> "zz", value |-> JStr("7")], [key |-> "id", value |-> JStr("7")] >>
  /\ ~fnIn.multipart.some
  /\ fnOut.status = "Ok"
  /\ fnOut.col_names = <<"id">>
  /\ fnOut.named_params = << [name |-> <<":", "id">>, value |-> SqlInteger(7)] >>

\* The three parallel lists of a Params value.
ParamsAligned(p) ==
  /\ Len(p.col_names) = Len(p.named_params)
  /\ \A i \in 1..Len(p.named_params) : p.named_params[i].name = <<":", p.col_names[i]>>
  /\ \A i \in 1..Len(p.file_col_names) :
       \E j \in 1..Len(p.col_names) : p.col_names[j] = p.file_col_names[i]

\* C11: in every Params value, as Params::from returns it and after a later
\* push_param, col_names and named_params have the same length, the i-th
\* placeholder is ':' followed by the i-th column name, and every name of
\* file_col_names occurs in col_names.
C11_ParamsListsStayAligned ==
  /\ (fnOut # NotRun /\ fnOut.status = "Ok") => ParamsAligned(fnOut)
  /\ pushed # NotRun => ParamsAligned(pushed)

\* A Params built from a JSON file column and a multipart upload got the
\* primary key pushed by the update.
C11_Witness ==
  /\ pushed # NotRun
  /\ pushed.col_names = <<"files", "file", "id">>
  /\ pushed.file_col_names = <<"files", "file">>
  /\ Len(pushed.named_params) = 3

\***************************************************************************
\* Blob columns given as JSON arrays
\***************************************************************************

\* Bound: length of the JSON array given for the Blob column.
MaxArr == 2

\* Elements of the array: bytes at both ends of the range, integers just
\* outside it, a float, a string and null.
BlobElems == {JNum(0), JNum(255), JNum(256), JNum(-1), JFloat(1), JStr("7"), JNull}

BlobArrays == UNION {[1..n -> BlobElems] : n \in 0..MaxArr}

BlobInit ==
  /\ fnIn \in {[json |-> << [key |-> "blob", value |-> JArr(a)] >>,
                 multipart |-> [some |-> FALSE, files |-> <<>>],
                 validates |-> v] : a \in BlobArrays, v \in BOOLEAN}
  /\ fnOut = NotRun
  /\ pushed = NotRun
  /\ lazy = None

SpecBlobInit == CacheBuilt(InitCatalog) /\ RecordIdle /\ BlobInit /\ AlterIdle /\ SchemaIdle
SpecBlob == SpecBlobInit /\ [][SpecParamsNext]_vars

IsByte(v) == v.t = "i64" /\ v.n >= 0 /\ v.n <= 255

ParamsErrors ==
  {"NotAnObject", "NotANumber", "Column", "UnexpectedType", "Decode", "NestedObject",
   "NestedArray", "InhomogenousArray", "ParseInt", "ParseFloat", "JsonValidation",
   "JsonSerialization", "Schema", "Storage"}

\* C12: a JSON array given for a Blob column becomes the Blob of its elements,
\* in order, when every element is an integer in 0..255; with any other
\* element Params::from fails with a ParamsError, and the caller goes no
\* further (nothing is pushed, no record or object is touched).
C12_ByteArrayBecomesBlob ==
  fnOut # NotRun =>
    LET arr == fnIn.json[1].value.a
    IN IF \A i \in 1..Len(arr) : IsByte(arr[i])
         THEN /\ fnOut.status = "Ok"
              /\ fnOut.col_names = <<"blob">>
              /\ Len(fnOut.named_params) = 1
              /\ fnOut.named_params[1].value.t = "Blob"
              /\ fnOut.named_params[1].value.b = [i \in 1..Len(arr) |-> arr[i].n]
         ELSE /\ fnOut.status \in ParamsErrors
              /\ pushed = NotRun
              /\ rows = <<>> /\ store = {} /\ calls = 0

\* The array [0, 255] was built into the two-byte Blob.
C12_Witness ==
  /\ fnOut # NotRun
  /\ fnIn.json[1].value = JArr(<<JNum(0), JNum(255)>>)
  /\ fnOut.status = "Ok"
  /\ fnOut.named_params[1].value = SqlBlob(<<0, 255>>)

\***************************************************************************
\* LazyParams
\***************************************************************************

\* Bound: number of params() calls made on one LazyParams value.
MaxLazyCalls == 2

\* LazyParams::new: nothing is built; `validates` stands for the outcome of
\* the JSON schema validation of the table's columns.
LazyNew(json_row, multipart_files, validates) ==
  [json_row |-> json_row, multipart_files |-> multipart_files, validates |-> validates,
   params |-> NotRun, builds |-> 0, calls |-> 0, consumed |-> FALSE, ret |-> NotRun]

LazyInit ==
  /\ fnIn \in {[json |-> j, multipart |-> m, validates |-> v] :
                 j \in {r \in JsonRows : Len(r) <= 1}, m \in MultipartMenu, v \in BOOLEAN}
  /\ fnOut = NotRun
  /\ pushed = NotRun
  /\ lazy = LazyNew(fnIn.json, fnIn.multipart, fnIn.validates)

\* Params::from on the inputs the value holds now; builds counts the runs.
LazyBuild(l) ==
  [l EXCEPT !.params = ParamsFrom(ParamsTable, l.json_row, l.multipart_files, l.validates),
            !.json_row = <<>>,
            !.multipart_files = [some |-> FALSE, files |-> <<>>],
            !.builds = @ + 1]

\* Mutant: params() builds on every call, from what mem::take left behind.
LazyParamsRebuilds(l) ==
  LET built == LazyBuild(l)
  IN [built EXCEPT !.ret = built.params, !.calls = @ + 1]

\* LazyParams::params
LazyParamsCall(l) ==
  IF l.params # NotRun
    THEN [l EXCEPT !.ret = l.params, !.calls = @ + 1]
    ELSE LET built == LazyBuild(l)
         IN [built EXCEPT !.ret = built.params, !.calls = @ + 1]

\* LazyParams::consume
LazyConsume(l) ==
  IF l.params # NotRun
    THEN [l EXCEPT !.ret = l.params, !.consumed = TRUE]
    ELSE LET built == LazyBuild(l)
         IN [built EXCEPT !.ret = built.params, !.consumed = TRUE]

\* The policy engine or the handler asks for the parameters.
CallParams ==
  /\ ~lazy.consumed
  /\ lazy.calls < MaxLazyCalls
  /\ lazy' = LazyParamsCall(lazy)
  /\ UNCHANGED <<fnIn, fnOut, pushed>>

\* The handler takes the parameters; the value is moved and gone.
CallConsume ==
  /\ ~lazy.consumed
  /\ lazy' = LazyConsume(lazy)
  /\ UNCHANGED <<fnIn, fnOut, pushed>>

LazyNext == CallParams \/ CallConsume

SpecLazyInit == CacheBuilt(InitCatalog) /\ RecordIdle /\ LazyInit /\ AlterIdle /\ SchemaIdle
SpecLazyNext == LazyNext /\ UNCHANGED cacheVars /\ UNCHANGED recordVars /\ UNCHANGED alterVars /\ UNCHANGED schemaVars
SpecLazy == SpecLazyInit /\ [][SpecLazyNext]_vars

\* C13: for one LazyParams value Params::from runs at most once: not before
\* the first params() or consume() call, and every call, the consume() after
\* params() calls included, returns the result or the error of that one
\* build of the inputs the value was created with.
C13_ParamsBuiltAtMostOnce ==
  /\ lazy.builds <= 1
  /\ (lazy.calls = 0 /\ ~lazy.consumed) => (lazy.builds = 0 /\ lazy.params = NotRun)
  /\ (lazy.calls > 0 \/ lazy.consumed) =>
       /\ lazy.builds = 1
       /\ lazy.ret = ParamsFrom(ParamsTable, fnIn.json, fnIn.multipart, fnIn.validates)

\* Two params() calls and the consume() after them returned the Params of
\* the one build.
C13_Witness ==
  /\ lazy.calls = 2
  /\ lazy.consumed
  /\ lazy.builds = 1
  /\ lazy.ret.status = "Ok"
  /\ lazy.ret.col_names = <<"id">>

\***************************************************************************
\* Alter table: alter_table_handler
\***************************************************************************

\* Bound: rows of the table a request alters.
MaxRows == 2

NULL == "NULL"

\* QualifiedName: database_schema ("" for None) and name.
QName(db, name) == [db |-> db, name |-> name]

\* Column: its name and its DEFAULT (NULL when it declares none).
Column(name, dflt) == [name |-> name, dflt |-> dflt]

\* Table: the schema a request carries.
Table(name, columns) == [name |-> name, columns |-> columns]

\* The database an unqualified name resolves to, and the key of a name.
Resolve(qn) == <<IF qn.db = "" THEN "main" ELSE qn.db, qn.name>>

\* QualifiedName's equality: a missing database segment stands for main.
QNameEq(a, b) == Resolve(a) = Resolve(b)

ColumnNames(columns) == {columns[i].name : i \in 1..Len(columns)}

\* A stored table or view of the live database.
Stored(db, name, type, columns, rws) ==
  [db |-> db, name |-> name, type |-> type, columns |-> columns, rows |-> rws]

Find(db, qn) == {t \in db : <<t.db, t.name>> = Resolve(qn)}

\* The statements of the recorded transaction.
Pragma(on) == [op |-> "pragma", on |-> on, table |-> QName("", ""), from |-> QName("", ""),
               columns |-> <<>>, copy |-> <<>>]
CreateTable(schema) == [op |-> "create", on |-> FALSE, table |-> schema.name, from |-> QName("", ""),
                        columns |-> schema.columns, copy |-> <<>>]
InsertSelect(into, from, copy) == [op |-> "copy", on |-> FALSE, table |-> into, from |-> from,
                                   columns |-> <<>>, copy |-> copy]
DropTable(table) == [op |-> "drop", on |-> FALSE, table |-> table, from |-> QName("", ""),
                     columns |-> <<>>, copy |-> <<>>]
RenameTable(from, to) == [op |-> "rename", on |-> FALSE, table |-> to, from |-> from,
                          columns |-> <<>>, copy |-> <<>>]

SeqToSet(q) == {q[i] : i \in 1..Len(q)}

\* The row INSERT ... (copy) SELECT copy stores for a source row: the copied
\* values, and the column's default in every column that is not listed.
CopiedRow(into, copy, row) ==
  [c \in ColumnNames(into.columns) |->
     IF c \in SeqToSet(copy) THEN row[c]
     ELSE (CHOOSE col \in SeqToSet(into.columns) : col.name = c).dflt]

\* The engine executes one statement: [ok, db].
Exec(db, stmt) ==
  LET tgt == Find(db, stmt.table)
      src == Find(db, stmt.from)
      no == [ok |-> FALSE, db |-> db]
      yes(d) == [ok |-> TRUE, db |-> d]
  IN CASE stmt.op = "pragma" -> yes(db)      \* foreign_keys: no schema, no data
       [] stmt.op = "create" ->
            IF tgt # {} THEN no               \* the name is taken
            ELSE yes(db \cup {Stored(Resolve(stmt.table)[1], stmt.table.name, "table",
                                     stmt.columns, <<>>)})
       [] stmt.op = "copy" ->
            IF tgt = {} \/ src = {} \/ stmt.copy = <<>> THEN no
            ELSE LET into == CHOOSE t \in tgt : TRUE
                     from == CHOOSE t \in src : TRUE
                 IN IF ~(SeqToSet(stmt.copy) \subseteq ColumnNames(into.columns))
                         \/ ~(SeqToSet(stmt.copy) \subseteq ColumnNames(from.columns))
                      THEN no                 \* no such column
                      ELSE yes((db \ {into}) \cup
                                 {[into EXCEPT !.rows =
                                     @ \o [i \in 1..Len(from.rows) |->
                                             CopiedRow(into, stmt.copy, from.rows[i])]]})
       [] stmt.op = "drop" ->
            IF tgt = {} \/ (\E t \in tgt : t.type # "table") THEN no
            ELSE yes(db \ tgt)
       [] stmt.op = "rename" ->
            IF src = {} \/ tgt # {} THEN no
            ELSE LET from == CHOOSE t \in src : TRUE
                 IN yes((db \ {from}) \cup {[from EXCEPT !.name = stmt.table.name]})
       [] OTHER -> no

\* let is_table_rename = target_table_name != source_table_name;
is_table_rename(source_schema, target_schema) == ~QNameEq(target_schema.name, source_schema.name)

\* temp_table_name: the target name for a rename, else "__alter_table_<name>"
temp_table_name(source_schema, target_schema) ==
  IF is_table_rename(source_schema, target_schema) THEN target_schema.name
  ELSE QName(target_schema.name.db, "__alter_table_" \o target_schema.name.name)

\* copy_columns: the target's columns whose name the source schema has too.
copy_columns(source_schema, target_schema) ==
  LET InSource(c) == c.name \in ColumnNames(source_schema.columns)
      kept == SelectSeq(target_schema.columns, InSource)
  IN [i \in 1..Len(kept) |-> kept[i].name]

\* Mutant: the working table is renamed when the request renames the table.
AlterStatementsRenameSwapped(source_schema, target_schema) ==
  LET temp == temp_table_name(source_schema, target_schema)
  IN << Pragma(FALSE),
        CreateTable(Table(temp, target_schema.columns)),
        InsertSelect(temp, source_schema.name, copy_columns(source_schema, target_schema)),
        DropTable(source_schema.name) >>
     \o (IF QNameEq(target_schema.name, temp) THEN <<RenameTable(temp, target_schema.name)>>
         ELSE <<>>)
     \o << Pragma(TRUE) >>

\* Mutant: the source table is not dropped.
AlterStatementsKeepSource(source_schema, target_schema) ==
  LET temp == temp_table_name(source_schema, target_schema)
  IN << Pragma(FALSE),
        CreateTable(Table(temp, target_schema.columns)),
        InsertSelect(temp, source_schema.name, copy_columns(source_schema, target_schema)) >>
     \o (IF ~QNameEq(target_schema.name, temp) THEN <<RenameTable(temp, target_schema.name)>>
         ELSE <<>>)
     \o << Pragma(TRUE) >>

\* Mutant: foreign-key enforcement is switched back on before the source is
\* dropped.
AlterStatementsEnablesEarly(source_schema, target_schema) ==
  LET temp == temp_table_name(source_schema, target_schema)
  IN << Pragma(FALSE),
        CreateTable(Table(temp, target_schema.columns)),
        InsertSelect(temp, source_schema.name, copy_columns(source_schema, target_schema)),
        Pragma(TRUE),
        DropTable(source_schema.name) >>
     \o (IF ~QNameEq(target_schema.name, temp) THEN <<RenameTable(temp, target_schema.name)>>
         ELSE <<>>)

\* The statements the closure executes on the recorder, in order.
AlterStatements(source_schema, target_schema) ==
  LET temp == temp_table_name(source_schema, target_schema)
  IN << Pragma(FALSE),
        CreateTable(Table(temp, target_schema.columns)),
        InsertSelect(temp, source_schema.name, copy_columns(source_schema, target_schema)),
        DropTable(source_schema.name) >>
     \o (IF ~QNameEq(target_schema.name, temp) THEN <<RenameTable(temp, target_schema.name)>>
         ELSE <<>>)
     \o << Pragma(TRUE) >>

RECURSIVE RunStatements(_, _, _, _)
\* tx.execute(..)? statement by statement; failAt is the statement on which
\* the engine reports an error of its own (0: none).
RunStatements(db, stmts, i, failAt) ==
  IF i > Len(stmts) THEN [ok |-> TRUE, db |-> db]
  ELSE IF i = failAt THEN [ok |-> FALSE, db |-> db]
  ELSE LET r == Exec(db, stmts[i])
       IN IF ~r.ok THEN r ELSE RunStatements(r.db, stmts, i + 1, failAt)

\* Mutant: the statements run on the connection itself, outside a recorder.
RecordTransactionKeepsChanges(db, stmts, failAt) ==
  LET r == RunStatements(db, stmts, 1, failAt)
  IN IF failAt = -1 THEN [status |-> "Sqlite", log |-> <<>>, db |-> db]
     ELSE IF ~r.ok \/ failAt = Len(stmts) + 1 THEN [status |-> "Sqlite", log |-> <<>>, db |-> r.db]
     ELSE [status |-> "Ok", log |-> stmts, db |-> r.db]

\* The closure given to conn.call: the statements run on a
\* TransactionRecorder, which is rolled back whether the closure returns the
\* log (tx.rollback()) or an error (the recorder is dropped).  failAt = -1:
\* TransactionRecorder::new fails; Len(stmts) + 1: rollback() fails.
RecordTransaction(db, stmts, failAt) ==
  LET r == RunStatements(db, stmts, 1, failAt)
  IN IF failAt = -1 \/ ~r.ok \/ failAt = Len(stmts) + 1
       THEN [status |-> "Sqlite", log |-> <<>>, db |-> db]
       ELSE [status |-> "Ok", log |-> stmts, db |-> db]

\* TransactionLog::apply_as_migration, second half: the statements of the
\* file are run on the live connection in one transaction.
ReplayLog(db, log, failAt) ==
  LET r == RunStatements(db, log, 1, failAt)
  IN IF r.ok THEN [status |-> "Ok", db |-> r.db] ELSE [status |-> "Migration", db |-> db]

\* QualifiedName::migration_filename("alter_table")
migration_filename(name, suffix) == [suffix |-> suffix, db |-> name.db, name |-> name.name]

\* str::starts_with("_") on the names of the requests
StartsWithUnderscore(name) == name \in {"_foo"}

\* The sqlite_schema rows of the live database.
CatalogOf(db) ==
  {CatalogRow([db |-> t.db, type |-> t.type, name |-> t.name, parses |-> TRUE, file |-> FALSE],
              Len(t.columns)) : t \in db}

\* Mutant: every entry that names a table is pointed at the target.
RewriteApisAll(record_apis, source_name, target_name) ==
  [i \in 1..Len(record_apis) |-> IF record_apis[i] # "" THEN target_name ELSE record_apis[i]]

\* The loop over config.record_apis: entries naming the source are renamed.
RewriteApis(record_apis, source_name, target_name) ==
  [i \in 1..Len(record_apis) |->
     IF record_apis[i] = source_name THEN target_name ELSE record_apis[i]]

\* hash_config: taken to be free of collisions on the configurations here.
hash_config(c) == <<"hash", c>>

\* is_table_rename && matches!(database_schema, Some("main") | None)
RenamesInDefaultDb(source_schema, target_schema) ==
  /\ is_table_rename(source_schema, target_schema)
  /\ source_schema.name.db \in {"main", ""}

\* ---- the databases, configurations and requests of the check ----

ColA == Column("a", NULL)
ColB == Column("b", NULL)

RowValues == { ("a" :> "x1" @@ "b" :> "y1"), ("a" :> "x2" @@ "b" :> NULL) }

AlterRows == UNION {[1..n -> RowValues] : n \in 0..MaxRows}

\* main: tables foo, _foo and baz and the view v; aux: table foo.
AlterDatabase(rws) ==
  { Stored("main", "foo", "table", <<ColA, ColB>>, rws),
    Stored("main", "_foo", "table", <<ColA>>, <<>>),
    Stored("main", "baz", "table", <<ColA>>, << ("a" :> "z1") >>),
    Stored("main", "v", "view", <<ColA>>, <<>>),
    Stored("aux", "foo", "table", <<ColA, ColB>>, rws) }

\* record_apis[i].table_name ("" for None)
AlterConfig == <<"foo", "baz", "", "foo">>

Segments == {"", "main", "aux"}

SourceSchemas ==
  { Table(QName(db, n), cols) :
      db \in Segments, n \in {"foo", "_foo", "v", "ghost"},
      cols \in { <<ColA, ColB>>, <<ColA>>, <<ColA, Column("c", NULL)>> } }

TargetSchemas ==
  { Table(QName(db, n), cols) :
      db \in Segments, n \in {"foo", "bar", "baz"},
      cols \in { <<ColA, ColB>>, <<ColA>>, <<ColB, ColA>>,
                 <<ColA, ColB, Column("n", "d")>>,
                 <<ColB, Column("n", NULL)>>,
                 <<Column("n", "d")>>,
                 <<ColA, Column("c", NULL)>> } }

\* AlterTableRequest
AlterTableRequest(source_schema, target_schema) ==
  [source_schema |-> source_schema, target_schema |-> target_schema]

\* The call as the router hands it to the handler.  before, applied, txs,
\* invalidated and wrote keep what the call has done so far.
AlterCall(demo, request, db) ==
  [pc |-> "validate", demo_mode |-> demo, request |-> request, log |-> <<>>,
   old_config_hash |-> hash_config(<<>>), new_config |-> <<>>, ret |-> "none",
   before |-> db, txs |-> 0, applied |-> FALSE, invalidated |-> FALSE, wrote |-> FALSE]

AlterInit ==
  /\ live \in {AlterDatabase(rws) : rws \in AlterRows}
  /\ migrations = {}
  /\ config = AlterConfig
  /\ alter \in {AlterCall(demo, AlterTableRequest(src, tgt), live) :
                   demo \in BOOLEAN, src \in SourceSchemas, tgt \in TargetSchemas}

AlterReturn(ret) == [alter EXCEPT !.pc = "done", !.ret = ret]

Source == alter.request.source_schema
Target == alter.request.target_schema

\* The three early returns of the handler.
Rejected ==
  \/ alter.demo_mode /\ StartsWithUnderscore(Source.name.name)
  \/ Source.name.db # Target.name.db
  \/ Lookup(state.tables, Resolve(Source.name)) = {}

\* Mutant: only the demo-mode check guards the handler.
ValidateDemoOnly ==
  /\ alter.pc = "validate"
  /\ alter' = IF alter.demo_mode /\ StartsWithUnderscore(Source.name.name)
                THEN AlterReturn("Precondition")
                ELSE [alter EXCEPT !.pc = "transaction"]
  /\ UNCHANGED <<live, migrations, config, cacheVars>>

\* The checks before any statement runs.
Validate ==
  /\ alter.pc = "validate"
  /\ alter' = IF Rejected THEN AlterReturn("Precondition")
                ELSE [alter EXCEPT !.pc = "transaction"]
  /\ UNCHANGED <<live, migrations, config, cacheVars>>

\* conn.call(closure).await?: the transaction is recorded and rolled back.
RecordTx ==
  /\ alter.pc = "transaction"
  /\ LET stmts == AlterStatements(Source, Target)
     IN \E failAt \in -1..(Len(stmts) + 1) :
          LET r == RecordTransaction(live, stmts, failAt)
          IN /\ live' = r.db
             /\ catalog' = CatalogOf(r.db)
             /\ alter' = IF r.status # "Ok"
                            THEN [AlterReturn(r.status) EXCEPT !.txs = @ + 1]
                          ELSE [alter EXCEPT !.txs = @ + 1, !.log = r.log,
                                             !.pc = IF r.log # <<>> THEN "write_migration"
                                                    ELSE "invalidate"]
  /\ UNCHANGED <<migrations, config, ddlCount, triggers, state, inv, got>>

\* apply_as_migration, first half: the log is written as a migration file.
WriteMigration ==
  /\ alter.pc = "write_migration"
  /\ \/ /\ migrations' = migrations \cup
                             {[filename |-> migration_filename(Source.name, "alter_table"),
                               statements |-> alter.log]}
        /\ alter' = [alter EXCEPT !.pc = "replay"]
     \/ /\ alter' = AlterReturn("Migration")       \* the file cannot be written
        /\ UNCHANGED migrations
  /\ UNCHANGED <<live, config, cacheVars>>

\* apply_as_migration, second half: the file is applied to the connection.
Replay ==
  /\ alter.pc = "replay"
  /\ \E failAt \in 0..Len(alter.log) :
       LET r == ReplayLog(live, alter.log, failAt)
       IN /\ live' = r.db
          /\ catalog' = CatalogOf(r.db)
          /\ alter' = IF r.status # "Ok" THEN AlterReturn(r.status)
                        ELSE [alter EXCEPT !.pc = "invalidate", !.applied = TRUE]
  /\ UNCHANGED <<migrations, config, ddlCount, triggers, state, inv, got>>

\* Mutant: the handler goes on to the configuration without the rebuild.
InvalidateSkipped ==
  /\ alter.pc = "invalidate"
  /\ alter' = IF RenamesInDefaultDb(Source, Target) THEN [alter EXCEPT !.pc = "config"]
                ELSE AlterReturn("Ok")
  /\ UNCHANGED <<live, migrations, config, cacheVars>>

\* state.schema_metadata().invalidate_all().await?
InvalidateAll ==
  /\ alter.pc = "invalidate"
  /\ \/ /\ LookupAllTables(catalog).ok
        /\ state' = FreshState(catalog)
        /\ alter' = IF RenamesInDefaultDb(Source, Target)
                      THEN [alter EXCEPT !.pc = "config", !.invalidated = TRUE]
                      ELSE [AlterReturn("Ok") EXCEPT !.invalidated = TRUE]
     \/ /\ UNCHANGED state                      \* SchemaLookupError
        /\ alter' = [AlterReturn("SchemaLookup") EXCEPT !.invalidated = TRUE]
  /\ UNCHANGED <<live, migrations, config, catalog, ddlCount, triggers, inv, got>>

\* Mutant: the loop renames the entries of the stored configuration itself.
ReadConfigInPlace ==
  /\ alter.pc = "config"
  /\ alter' = [alter EXCEPT !.pc = "update_config",
                            !.old_config_hash = hash_config(config),
                            !.new_config = RewriteApis(config, Source.name.name,
                                                       Target.name.name)]
  /\ config' = RewriteApis(config, Source.name.name, Target.name.name)
  /\ UNCHANGED <<live, migrations, cacheVars>>

\* get_config, hash_config and the loop over record_apis.
ReadConfig ==
  /\ alter.pc = "config"
  /\ alter' = [alter EXCEPT !.pc = "update_config",
                            !.old_config_hash = hash_config(config),
                            !.new_config = RewriteApis(config, Source.name.name,
                                                       Target.name.name)]
  /\ UNCHANGED <<live, migrations, config, cacheVars>>

\* validate_and_update_config(config, Some(old_config_hash)).await?: refused
\* when the stored configuration no longer has that hash.
UpdateConfig ==
  /\ alter.pc = "update_config"
  /\ \/ /\ hash_config(config) = alter.old_config_hash
        /\ config' = alter.new_config
        /\ alter' = [AlterReturn("Ok") EXCEPT !.wrote = TRUE]
     \/ /\ UNCHANGED config                     \* stale hash, validation or write error
        /\ alter' = AlterReturn("Config")
  /\ UNCHANGED <<live, migrations, cacheVars>>

\* Another admin request changes the configuration.
ConfigChanged ==
  /\ alter.pc # "done"
  /\ config = AlterConfig
  /\ config' = Append(config, "baz")
  /\ UNCHANGED <<live, migrations, alter, cacheVars>>

AlterNext ==
  \/ Validate
  \/ RecordTx
  \/ WriteMigration
  \/ Replay
  \/ InvalidateAll
  \/ ReadConfig
  \/ UpdateConfig
  \/ ConfigChanged

SpecAlterInit ==
  /\ AlterInit
  /\ CacheBuilt(CatalogOf(live))
  /\ RecordIdle
  /\ FnIdle
  /\ SchemaIdle
SpecAlterNext == AlterNext /\ UNCHANGED recordVars /\ UNCHANGED fnVars /\ UNCHANGED schemaVars
SpecAlter == SpecAlterInit /\ [][SpecAlterNext]_vars

\* ---- claims on alter table ----

Succeeded == alter.pc = "done" /\ alter.ret = "Ok"

\* The source table as it was when the request arrived.
SourceBefore == Find(alter.before, Source.name)

SharedColumns == ColumnNames(Source.columns) \cap ColumnNames(Target.columns)

\* Row i of the new table agrees with row i of the old one on the columns cs.
SameOn(new, old, cs) ==
  /\ Len(new.rows) = Len(old.rows)
  /\ \A i \in 1..Len(new.rows) : \A c \in cs : new.rows[i][c] = old.rows[i][c]

C15_RenameMovesTheRows ==
  (Succeeded /\ is_table_rename(Source, Target)) =>
    /\ Find(live, Source.name) = {}
    /\ \E new \in Find(live, Target.name) : \E old \in SourceBefore :
         /\ ColumnNames(new.columns) \cap ColumnNames(Source.columns) = SharedColumns
         /\ SameOn(new, old, SharedColumns)

\* foo was renamed to bar and lost column b; its two rows are under bar.
C15_Witness ==
  /\ Succeeded
  /\ Source = Table(QName("main", "foo"), <<ColA, ColB>>)
  /\ Target = Table(QName("main", "bar"), <<ColA>>)
  /\ Find(live, QName("main", "foo")) = {}
  /\ \E t \in Find(live, QName("main", "bar")) :
       t.rows = << ("a" :> "x1"), ("a" :> "x2") >>

\* C16: when the handler has returned, with success or with an error of any
\* step, a migration file of the alter is on disk if and only if its
\* statements have been applied to the live connection.
C16_MigrationFileIffApplied ==
  alter.pc = "done" => ((migrations # {}) <=> alter.applied)

\* C17: when a statement of the alter-table transaction fails, the handler
\* returns an error and the live database is as before the request: the
\* source table with all its rows, no working table, no target table added.
C17_FailedTransactionChangesNothing ==
  (alter.pc = "done" /\ alter.ret \in {"Sqlite", "Migration"}) =>
    /\ live = alter.before
    /\ catalog = CatalogOf(alter.before)
    /\ SourceBefore \subseteq live
    /\ Find(live, temp_table_name(Source, Target)) \subseteq alter.before

\* The copy of a request whose schemas share no column failed after the
\* working table had been created in the transaction.
C17_Witness ==
  /\ alter.pc = "done"
  /\ alter.ret = "Sqlite"
  /\ alter.txs = 1
  /\ Source = Table(QName("", "foo"), <<ColA, ColB>>)
  /\ Target = Table(QName("", "foo"), <<Column("n", "d")>>)
  /\ \E t \in SourceBefore : Len(t.rows) = 2

\* The request names different database segments, or a source that the
\* cache the request found does not hold as a table.
Unacceptable ==
  \/ Source.name.db # Target.name.db
  \/ Lookup(FreshState(CatalogOf(alter.before)).tables, Resolve(Source.name)) = {}

\* C18: a request whose database segments differ, or whose source resolves
\* to no table of the cache, is rejected with a Precondition error before
\* anything else: no transaction, no statement, no migration file, no
\* rebuild of the cache, no change of the configuration.
C18_RejectedBeforeAnyEffect ==
  Unacceptable =>
    /\ alter.pc \in {"validate", "done"}
    /\ alter.pc = "done" => alter.ret = "Precondition"
    /\ alter.txs = 0
    /\ live = alter.before
    /\ migrations = {}
    /\ ~alter.invalidated
    /\ state = FreshState(CatalogOf(alter.before))
    /\ ~alter.wrote
    /\ alter.new_config = <<>>

\* A request to alter the view v was rejected.
C18_Witness ==
  /\ alter.pc = "done"
  /\ alter.ret = "Precondition"
  /\ ~alter.demo_mode
  /\ Source.name = QName("main", "v")
  /\ Target.name = QName("main", "bar")

\* C19: once the request has changed the live schema, invalidate_all is
\* called before the handler reads or writes the configuration and before
\* it returns; the live schema changes at no other step.
C19_InvalidatedAfterSchemaChange ==
  /\ (alter.applied /\ alter.pc \in {"config", "update_config", "done"}) => alter.invalidated
  /\ alter.wrote => alter.invalidated
  /\ ~alter.applied => live = alter.before

\* The handler returned after a rename: the cache was rebuilt from the new
\* schema and differs from the one the request found.
C19_Witness ==
  /\ alter.pc = "done"
  /\ alter.applied
  /\ alter.invalidated
  /\ live # alter.before
  /\ state = FreshState(catalog)
  /\ state # FreshState(CatalogOf(alter.before))

\* C20: the step in which the handler returns Ok for a rename in the default
\* database writes the configuration, from the one it read and only if that
\* is still the stored one: entries naming the source name the target, the
\* others are as before, none names the source.  A stale read makes the
\* update fail.  For any other request no step of the handler touches the
\* configuration.
C20_ConfigFollowsTheRename ==
  [][/\ (alter.pc # "done" /\ alter'.pc = "done" /\ alter'.ret = "Ok"
          /\ RenamesInDefaultDb(Source, Target)) =>
            /\ alter.pc = "update_config"
            /\ hash_config(config) = alter.old_config_hash
            /\ alter'.wrote
            /\ Len(config') = Len(config)
            /\ \A i \in 1..Len(config) :
                 /\ config[i] = Source.name.name => config'[i] = Target.name.name
                 /\ config[i] # Source.name.name => config'[i] = config[i]
                 /\ config'[i] # Source.name.name
     /\ (alter.pc = "update_config" /\ alter'.pc = "done"
          /\ hash_config(config) # alter.old_config_hash) =>
            (config' = config /\ alter'.ret = "Config")
     /\ (alter' # alter /\ ~RenamesInDefaultDb(Source, Target)) =>
            (config' = config /\ ~alter'.wrote /\ alter'.new_config = <<>>)
    ]_vars

\* foo was renamed to bar after another request had changed the
\* configuration: both entries of foo name bar, the others are kept.
C20_Witness ==
  /\ Succeeded
  /\ alter.wrote
  /\ Source.name = QName("", "foo")
  /\ Target.name = QName("", "bar")
  /\ config = <<"bar", "baz", "", "bar", "baz">>

\* What other requests may have made of the configuration the call found.
ConfigsOfOthers == {AlterConfig, Append(AlterConfig, "baz")}

\* C21: when the configuration update fails after the rename was applied,
\* the handler returns the error and the schema change stays: the table is
\* under the new name and not under the old one, the migration file is on
\* disk, the cache was rebuilt from the new schema, and the configuration is
\* as the handler found it, its entries still naming the old table.
C21_FailedConfigUpdateKeepsTheRename ==
  (alter.pc = "done" /\ alter.ret = "Config") =>
    /\ alter.applied
    /\ Find(live, Source.name) = {}
    /\ \E t \in Find(live, Target.name) : t.type = "table" /\ t.columns = Target.columns
    /\ \E f \in migrations : f.statements = alter.log
    /\ alter.invalidated
    /\ state = FreshState(CatalogOf(live))
    /\ ~alter.wrote
    /\ config \in ConfigsOfOthers
    /\ \A i \in 1..Len(AlterConfig) : config[i] = AlterConfig[i]

\* The rename of foo to bar was applied and the update of the configuration
\* was refused because another request had changed it.
C21_Witness ==
  /\ alter.pc = "done"
  /\ alter.ret = "Config"
  /\ Source.name = QName("", "foo")
  /\ Target.name = QName("", "bar")
  /\ Find(live, QName("", "bar")) # {}
  /\ config = <<"foo", "baz", "", "foo", "baz">>
  /\ hash_config(config) # alter.old_config_hash

\* C22: an UPDATE that overwrites a non-null value of the file column with
\* anything else (another descriptor or NULL), and a DELETE of a row holding a
\* non-null value, append the old value with its row id to the ledger in the
\* same statement; a statement that leaves the value as it was appends
\* nothing.
C22_OverwrittenValueIsRecorded ==
  [][op.kind \in {"update", "delete"} =>
       \A k \in Keys :
         /\ (rows[k] \notin {NoRow, Null} /\ rows'[k] # rows[k])
               => [rowid |-> k, json |-> rows[k]] \in ledger'
         /\ rows'[k] = rows[k] => {e \in ledger' \ ledger : e.rowid = k} = {}]_vars

\* C24: when an Update returns success, every object it wrote to the object
\* store is referenced by the row it addressed; an Update whose primary key
\* matches no row leaves none of its objects in the store.
C24_UpdateLeavesNoUnreferencedObject ==
  [][(op.kind = "update" /\ op'.pc = "idle" /\ returned'.ret = "Ok")
       => (OwnFiles \cap store') \subseteq FromJson(rows'[TargetKey])]_vars

\* C25: when Insert, bulk Insert or Update returns an error because the
\* write of one of its files failed, none of the files it had already
\* written is in the object store.
C25_FailedWriteLeavesNoObject ==
  [][(op.kind \in {"insert", "bulk", "update"} /\ op.pc = "write"
        /\ op'.pc = "idle" /\ returned'.ret = "Storage")
       => OwnFiles \cap store' = {}]_vars

\* C28: in Insert, bulk Insert and Update every file of the request is in
\* the object store when the statement or transaction starts, and a call
\* whose file write fails returns without having run its statement: the
\* steps of the write loop change neither the table nor the ledger.
C28_FilesAreWrittenBeforeTheStatement ==
  [][op.kind \in {"insert", "bulk", "update"} =>
       /\ op.pc = "sql" => OwnFiles \subseteq store
       /\ op.pc = "write" => (rows' = rows /\ ledger' = ledger /\ op.stmt = "none")
       /\ (op.pc = "write" /\ op'.pc = "idle")
            => (returned'.ret = "Storage" /\ returned'.stmt = "none")
       /\ rows' # rows => (op.pc = "sql" /\ OwnFiles \subseteq store)]_vars

\* An Insert returned the object store's error without running its
\* statement, and the next call, an Update, has written its file and is
\* about to run its statement.
C28_Witness ==
  /\ returned.kind = "insert"
  /\ returned.ret = "Storage"
  /\ returned.stmt = "none"
  /\ rows = [k \in Keys |-> NoRow]
  /\ op.kind = "update"
  /\ op.pc = "sql"
  /\ op.files # <<>>
  /\ OwnFiles \subseteq store

C26_OlderRebuildNeverOverwritesNewer ==
  [][(/\ LookupAllTables(catalog).ok
      /\ state.tables = TableMap(LookupAllTables(catalog).val)
      /\ catalog' = catalog
      /\ state' # state)
       => state'.tables = state.tables]_vars

\* The columns of file_col_names whose parameter names the file.
FileColumnsOf(p, file) ==
  {j \in 1..Len(p.col_names) :
     /\ \E i \in 1..Len(p.file_col_names) : p.file_col_names[i] = p.col_names[j]
     /\ p.named_params[j].value.t = "Text"
     /\ p.named_params[j].value.s \in {"std.FileUpload", "std.FileUploads"}
     /\ \E k \in DOMAIN p.named_params[j].value.b : p.named_params[j].value.b[k] = file.id}

\* C27: in every Params value that Params::from returns, each entry of
\* files belongs to a column listed in file_col_names; a multipart upload
\* whose field name matches no column contributes nothing to files.
C27_EveryFileBelongsToAFileColumn ==
  (fnOut # NotRun /\ fnOut.status = "Ok") =>
     \A i \in 1..Len(fnOut.files) : FileColumnsOf(fnOut, fnOut.files[i]) # {}

\* The request names two different tables.
Renames == Resolve(Target.name) # Resolve(Source.name)

\* The table the data is copied into.
Working ==
  IF Renames THEN Target.name
  ELSE [db |-> Target.name.db, name |-> "__alter_table_" \o Target.name.name]

\* C29: the statements of the recorded transaction are, in this order:
\* suspend foreign-key enforcement, CREATE the working table with the
\* target's columns, INSERT..SELECT the shared columns from the source, DROP
\* the source, RENAME working to target, re-enable foreign-key enforcement;
\* the RENAME is there if and only if the request does not rename the table,
\* the working table being '__alter_table_<target>' then and the target
\* itself for a rename.
C29_RecordedStatementsInOrder ==
  alter.log # <<>> =>
    LET log == alter.log
        last == Len(log)
    IN /\ last = (IF Renames THEN 5 ELSE 6)
       /\ log[1].op = "pragma" /\ ~log[1].on
       /\ log[2].op = "create" /\ log[2].table = Working /\ log[2].columns = Target.columns
       /\ log[3].op = "copy" /\ log[3].table = Working /\ log[3].from = Source.name
       /\ SeqToSet(log[3].copy) = ColumnNames(Target.columns) \cap ColumnNames(Source.columns)
       /\ log[4].op = "drop" /\ log[4].table = Source.name
       /\ ~Renames => (log[5].op = "rename" /\ log[5].from = Working /\ log[5].table = Target.name)
       /\ \A i \in 1..last : log[i].op = "rename" => (~Renames /\ i = 5)
       /\ log[last].op = "pragma" /\ log[last].on

\* The transaction of a request that keeps the name foo was recorded with the
\* RENAME from __alter_table_foo, and the one of a rename would have none.
C29_Witness ==
  /\ alter.log # <<>>
  /\ ~Renames
  /\ Len(alter.log) = 6
  /\ alter.log[5].op = "rename"
  /\ alter.log[5].from.name = "__alter_table_foo"
  /\ alter.log[5].table.name = "foo"
  /\ alter.applied

\***************************************************************************
\* JSON schema registry: set_schema, set_schemas and the SQL function
\* jsonschema(name, contents [, extra])
\***************************************************************************

\* Bound: length of the list handed to set_schemas.
MaxEntries == 2

\* The names schemas are registered under; "ghost" is never registered.
SchemaNames == {"name0", "name1"}

\* serde_json::Value as far as the validators look at it: the type of the
\* document and, for an object, its member "name" (absent, a string given by
\* its characters, or a number).
NoMember == [present |-> FALSE, string |-> FALSE, chars |-> <<>>]
StringMember(chars) == [present |-> TRUE, string |-> TRUE, chars |-> chars]
NumberMember == [present |-> TRUE, string |-> FALSE, chars |-> <<>>]
JsonValue(type, name) == [type |-> type, name |-> name]

\* serde_json::from_str on the texts a statement may hand in.
from_str(text) ==
  CASE text = "{}" -> [ok |-> TRUE, json |-> JsonValue("object", NoMember)]
    [] text = "{\"name\": \"pf\"}" ->
         [ok |-> TRUE, json |-> JsonValue("object", StringMember(<<"p", "f">>))]
    [] text = "{\"name\": \"Wp\"}" ->
         [ok |-> TRUE, json |-> JsonValue("object", StringMember(<<"W", "p">>))]
    [] text = "{\"name\": 1}" -> [ok |-> TRUE, json |-> JsonValue("object", NumberMember)]
    [] text = "[]" -> [ok |-> TRUE, json |-> JsonValue("array", NoMember)]
    [] OTHER -> [ok |-> FALSE, json |-> JsonValue("null", NoMember)]

\* The characters of a &str.
Chars(str) ==
  CASE str = "" -> <<>>
    [] str = "p" -> <<"p">>
    [] str = "W" -> <<"W">>
    [] OTHER -> <<"?">>

\* str::starts_with
IsPrefix(prefix, chars) ==
  Len(prefix) <= Len(chars) /\ SubSeq(chars, 1, Len(prefix)) = prefix

\* A JSON schema: the "type" it demands ("" for none), the members it
\* requires and the members it declares as strings.
JsonSchema(type, required, strings) == [type |-> type, required |-> required, strings |-> strings]

\* text0_schema of test_registerd_jsonschema, and the schema {}.
Text0Schema == JsonSchema("object", {"name"}, {"name"})
AnySchema == JsonSchema("", {}, {})

\* Validator::is_valid
is_valid(validator, json) ==
  LET sc == validator.compiled
      isObject == json.type = "object"
  IN /\ sc.type # "" => json.type = sc.type
     /\ ("name" \in sc.required /\ isObject) => json.name.present
     /\ ("name" \in sc.strings /\ isObject /\ json.name.present) => json.name.string

\* fn starts_with(v, param) of test_registerd_jsonschema: false without a
\* parameter.
starts_with(v, param) ==
  /\ param # {}
  /\ v.type = "object"
  /\ v.name.present /\ v.name.string
  /\ \A str \in param : IsPrefix(Chars(str), v.name.chars)

\* A call of a CustomValidatorFn.
CallCustom(validator, json, param) ==
  CASE validator = "starts_with" -> starts_with(json, param)
    [] OTHER -> TRUE

\* SchemaEntry::from(schema, custom_validator)
SchemaEntryFrom(schema, custom_validator) ==
  [schema |-> schema, validator |-> [compiled |-> schema],
   custom_validator |-> custom_validator]

SchemaEntries ==
  { SchemaEntryFrom(sc, cv) : sc \in {Text0Schema, AnySchema}, cv \in {{}, {"starts_with"}} }

\* HashMap::get(name).cloned()
RegistryGet(reg, name) == IF name \in DOMAIN reg THEN reg[name] ELSE {}

\* set_schema(name, entry): insert, replacing what the name held, or remove.
set_schema(reg, name, entry) ==
  IF entry # {} THEN [reg EXCEPT ![name] = entry]
  ELSE [reg EXCEPT ![name] = {}]

RECURSIVE InsertAll(_, _, _)
\* for (name, entry) in entries { lock.insert(name, entry); }
InsertAll(reg, entries, i) ==
  IF i > Len(entries) THEN reg
  ELSE InsertAll([reg EXCEPT ![entries[i].name] = {entries[i].entry}], entries, i + 1)

\* set_schemas(schema_entries): clear, then insert the list if there is one.
set_schemas(reg, schema_entries) ==
  LET cleared == [n \in DOMAIN reg |-> {}]
  IN IF schema_entries = {} THEN cleared
     ELSE InsertAll(cleared, CHOOSE entries \in schema_entries : TRUE, 1)

\* Result<bool, Error>
FnOk(val) == [status |-> "Ok", val |-> val, err |-> ""]
FnErr(err) == [status |-> "Err", val |-> FALSE, err |-> err]

\* The tail both functions share: the compiled validator, then the custom one.
EntryAccepts(entry, json, param) ==
  IF ~is_valid(entry.validator, json) THEN FnOk(FALSE)
  ELSE IF \E cv \in entry.custom_validator : ~CallCustom(cv, json, param) THEN FnOk(FALSE)
  ELSE FnOk(TRUE)

\* jsonschema_by_name: args is <<schema name, contents>>.
jsonschema_by_name(reg, args) ==
  IF args[1].t # "Text" THEN FnErr("InvalidType")
  ELSE IF args[2].t = "Null" THEN FnOk(TRUE)
  ELSE IF args[2].t # "Text" THEN FnErr("InvalidType")
  ELSE LET parsed == from_str(args[2].s)
           entry == RegistryGet(reg, args[1].s)
       IN IF ~parsed.ok THEN FnErr("Invalid JSON")
          ELSE IF entry = {} THEN FnErr("Schema not found")
          ELSE EntryAccepts(CHOOSE e \in entry : TRUE, parsed.json, {})

\* Mutant: the extra argument is read and not handed to the custom validator.
jsonschema_by_name_dropping_extra_args(reg, args) ==
  IF args[1].t # "Text" THEN FnErr("InvalidType")
  ELSE IF args[3].t # "Text" THEN FnErr("InvalidType")
  ELSE IF args[2].t = "Null" THEN FnOk(TRUE)
  ELSE IF args[2].t # "Text" THEN FnErr("InvalidType")
  ELSE LET parsed == from_str(args[2].s)
           entry == RegistryGet(reg, args[1].s)
       IN IF ~parsed.ok THEN FnErr("Invalid JSON")
          ELSE IF entry = {} THEN FnErr("Schema not found")
          ELSE EntryAccepts(CHOOSE e \in entry : TRUE, parsed.json, {})

\* jsonschema_by_name_with_extra_args: args is <<schema name, contents, extra>>;
\* the extra argument is read as text before the contents are looked at.
jsonschema_by_name_with_extra_args(reg, args) ==
  IF args[1].t # "Text" THEN FnErr("InvalidType")
  ELSE IF args[3].t # "Text" THEN FnErr("InvalidType")
  ELSE IF args[2].t = "Null" THEN FnOk(TRUE)
  ELSE IF args[2].t # "Text" THEN FnErr("InvalidType")
  ELSE LET parsed == from_str(args[2].s)
           entry == RegistryGet(reg, args[1].s)
       IN IF ~parsed.ok THEN FnErr("Invalid JSON")
          ELSE IF entry = {} THEN FnErr("Schema not found")
          ELSE EntryAccepts(CHOOSE e \in entry : TRUE, parsed.json, {args[3].s})

\* The arguments a statement may hand to jsonschema(..).
NameArgs == {SqlText("name0"), SqlText("name1"), SqlText("ghost"), SqlInteger(7)}
ContentArgs ==
  {SqlNull, SqlInteger(7)} \cup
  {SqlText(text) : text \in {"{}", "{\"name\": \"pf\"}", "{\"name\": \"Wp\"}",
                             "{\"name\": 1}", "[]", "pf", ""}}
ExtraArgs == {SqlText("p"), SqlText("W"), SqlText(""), SqlNull}

RECURSIVE SeqsUpTo(_, _)
SeqsUpTo(S, n) ==
  IF n = 0 THEN {<<>>}
  ELSE SeqsUpTo(S, n - 1) \cup
       {Append(q, x) : q \in {r \in SeqsUpTo(S, n - 1) : Len(r) = n - 1}, x \in S}

\* The lists set_schemas may be called with.
EntryLists ==
  SeqsUpTo({[name |-> n, entry |-> e] : n \in SchemaNames, e \in SchemaEntries}, MaxEntries)

SchemaInit ==
  /\ registry = [n \in SchemaNames |-> {}]
  /\ fnIn = <<>>
  /\ fnOut = NotRun
  /\ pushed = None
  /\ lazy = None

SetSchema ==
  /\ \E name \in SchemaNames, entry \in {{}} \cup {{e} : e \in SchemaEntries} :
       registry' = set_schema(registry, name, entry)
  /\ UNCHANGED fnVars

SetSchemas ==
  /\ \E schema_entries \in {{}} \cup {{q} : q \in EntryLists} :
       registry' = set_schemas(registry, schema_entries)
  /\ UNCHANGED fnVars

\* The engine evaluates jsonschema(name, contents).
JsonschemaByName ==
  /\ \E name \in NameArgs, contents \in ContentArgs :
       /\ fnIn' = <<name, contents>>
       /\ fnOut' = jsonschema_by_name(registry, <<name, contents>>)
  /\ UNCHANGED <<registry, pushed, lazy>>

\* The engine evaluates jsonschema(name, contents, extra).
JsonschemaByNameWithExtraArgs ==
  /\ \E name \in NameArgs, contents \in ContentArgs, extra \in ExtraArgs :
       /\ fnIn' = <<name, contents, extra>>
       /\ fnOut' = jsonschema_by_name_with_extra_args(registry, <<name, contents, extra>>)
  /\ UNCHANGED <<registry, pushed, lazy>>

SchemaNext ==
  \/ SetSchema
  \/ SetSchemas
  \/ JsonschemaByName
  \/ JsonschemaByNameWithExtraArgs

SpecSchemaInit == CacheBuilt(InitCatalog) /\ RecordIdle /\ AlterIdle /\ SchemaInit
SpecSchemaNext == SchemaNext /\ UNCHANGED cacheVars /\ UNCHANGED recordVars /\ UNCHANGED alterVars
SpecSchema == SpecSchemaInit /\ [][SpecSchemaNext]_vars

\* C23: called with a text name (and a text extra argument in the
\* three-argument form), the named-schema validator returns true for NULL
\* contents; fails when the contents are not JSON or the name is not
\* registered; returns false when the registered validator rejects the JSON;
\* and when the entry has a custom predicate it returns what the predicate
\* returns, the predicate receiving the extra argument in the three-argument
\* form and no argument in the two-argument form.
C23_NamedSchemaValidator ==
  [][(fnIn' # fnIn \/ fnOut' # fnOut) =>
       LET args == fnIn'
           res == fnOut'
           param == IF Len(args) = 3 THEN {args[3].s} ELSE {}
           entry == RegistryGet(registry, args[1].s)
           doc == from_str(args[2].s)
       IN (args[1].t = "Text" /\ (Len(args) = 3 => args[3].t = "Text")) =>
            /\ args[2].t = "Null" => res = FnOk(TRUE)
            /\ (args[2].t # "Null" /\ (args[2].t # "Text" \/ ~doc.ok \/ entry = {}))
                 => res.status = "Err"
            /\ (args[2].t = "Text" /\ doc.ok) =>
                 \A e \in entry :
                   /\ ~is_valid(e.validator, doc.json) => res = FnOk(FALSE)
                   /\ (is_valid(e.validator, doc.json) /\ e.custom_validator = {})
                        => res = FnOk(TRUE)
                   /\ is_valid(e.validator, doc.json) =>
                        \A cv \in e.custom_validator :
                          res = FnOk(CallCustom(cv, doc.json, param))]_vars

\* jsonschema('name0', '{"name": "pf"}', 'p') was accepted by the validator
\* of name0 and by its custom predicate, which got the prefix p.
C23_Witness ==
  /\ fnIn = <<SqlText("name0"), SqlText("{\"name\": \"pf\"}"), SqlText("p")>>
  /\ fnOut = FnOk(TRUE)
  /\ registry["name0"] = {SchemaEntryFrom(Text0Schema, {"starts_with"})}

\* C36: invalidate_all fails whenever the stored DDL of a table or of a view
\* of the catalog cannot be parsed: a call gets past its table lookup only
\* over a catalog without an unparseable table, and ends with Ok only over a
\* catalog without an unparseable view.
C36_UnparseableDdlFailsTheRebuild ==
  [][\A i \in Invokers :
       /\ (inv[i].pc = "lookup_tables" /\ inv'[i].pc = "build_tables")
            => \A r \in catalog : r.type = "table" => r.parses
       /\ (inv[i].pc = "build_views" /\ inv'[i].ret = "ok")
            => \A r \in catalog : r.type = "view" => r.parses]_vars

\* C40: a rebuild registers each view of the catalog exactly once, under the
\* database whose catalog holds it, and registers no view under the name of
\* another database.
C40_ViewsUnderTheirOwnDatabase ==
  [][state' # state =>
       /\ \A v \in state'.views :
            \E r \in catalog :
              r.type = "view" /\ r.db = v.name[1] /\ r.name = v.name[2] /\ r.ver = v.schema.ver
       /\ \A r \in {x \in catalog : x.type = "view" /\ x.parses} :
            Cardinality({v \in state'.views : v.name[2] = r.name /\ v.schema.ver = r.ver}) = 1]_vars

\* C32: when Update or Delete returns an error, the row it addressed is as
\* it was: no call returns an error after its statement changed a row and
\* committed.
C32_ErrorMeansRowUnchanged ==
  [][(op.kind \in {"update", "delete"} /\ op'.pc = "idle" /\ returned'.ret # "Ok")
       => (returned'.stmt # "row" /\ op.stmt # "row")]_vars

\* C35: an Insert whose policy overwrites an existing row does not notice
\* the file references of the row it overwrites: no step of an Insert adds
\* to the ledger or deletes an object other than the Insert's own, so the
\* objects of the overwritten row stay as they are, referenced by no row.
C35_ReplaceOrphansTheOverwrittenFiles ==
  [][op.kind = "insert" =>
       /\ ledger' = ledger
       /\ (store \ store') \subseteq OwnFiles
       /\ (rows[TargetKey] \notin {NoRow, Null} /\ rows' # rows) =>
            /\ store' = store
            /\ FromJson(rows[TargetKey]) \cap Referenced(rows') = {}]_vars

\* An Insert OR REPLACE of a row with object 2 overwrote the row that held
\* object 1 and returned: both objects are stored, object 1 is referenced by
\* no row and no ledger entry names it.
C35_Witness ==
  /\ returned.kind = "insert"
  /\ returned.ret = "Ok"
  /\ calls = 2
  /\ store = {1, 2}
  /\ Referenced(rows) = {2}
  /\ ledger = {}

\* C39: once an entry is inserted into the registry under a name, the name's
\* entry is never changed: a call of set_schema or set_schemas after which
\* the name is still registered leaves the name with the entry it had.
C39_RegisteredEntryNeverChanges ==
  [][\A name \in SchemaNames :
       (registry[name] # {} /\ registry'[name] # {}) => registry'[name] = registry[name]]_vars

\***************************************************************************
\* Params::from on multipart requests
\***************************************************************************

\* Bound: number of multipart uploads of a request.
MaxUploads == 2

\* The field names of the uploads: the two file columns, a column that is
\* not a file column, and a name that is no column.
UploadFields == {"file", "files", "blob", "zz"}

\* The i-th upload of a request has identity 7 + i.
UploadLists ==
  {[i \in 1..Len(q) |-> JObj(7 + i, q[i])] : q \in SeqsUpTo(UploadFields, MaxUploads)}

\* The JSON body of a multipart request: empty, or one file column given
\* inline.
UploadRows ==
  { <<>>,
    << [key |-> "file", value |-> JObj(1, "")] >>,
    << [key |-> "files", value |-> JArr(<<JObj(2, "")>>)] >>,
    << [key |-> "id", value |-> JNum(7)] >> }

UploadsInit ==
  /\ fnIn \in {[json |-> j, multipart |-> [some |-> TRUE, files |-> u], validates |-> TRUE] :
                 j \in UploadRows, u \in UploadLists}
  /\ fnOut = NotRun
  /\ pushed = NotRun
  /\ lazy = None

SpecUploadsInit == CacheBuilt(InitCatalog) /\ RecordIdle /\ UploadsInit /\ AlterIdle /\ SchemaIdle
SpecUploads == SpecUploadsInit /\ [][SpecParamsNext]_vars

\* The positions of the uploads of a request that name the given field.
UploadsFor(field) ==
  {i \in 1..Len(fnIn.multipart.files) : fnIn.multipart.files[i].s = field}

\* C31: every Params that Params::from returns holds one named parameter per
\* populated column: no column name occurs twice in col_names.
C31_OneParameterPerColumn ==
  (fnOut # NotRun /\ fnOut.status = "Ok") =>
     \A i \in 1..Len(fnOut.col_names), j \in 1..Len(fnOut.col_names) :
       fnOut.col_names[i] = fnOut.col_names[j] => i = j

\* C37: for multipart uploads, a second upload for the single-file column
\* makes Params::from fail with the Column error; an upload for a column that
\* is not a file column fails the build; and uploads for the multi-file
\* column alone are accepted whatever their number, each giving one
\* parameter and one file.
C37_UploadCollisions ==
  fnOut # NotRun =>
    /\ Cardinality(UploadsFor("file")) > 1 => fnOut = ParamsErr("Column")
    /\ UploadsFor("blob") # {} => fnOut = ParamsErr("Column")
    /\ UploadsFor("files") = 1..Len(fnIn.multipart.files) =>
         /\ fnOut.status = "Ok"
         /\ \A i \in UploadsFor("files") :
              \E j \in 1..Len(fnOut.named_params) :
                /\ fnOut.col_names[j] = "files"
                /\ fnOut.named_params[j].value = SqlFileText("std.FileUpload", <<7 + i>>)

\* Two uploads for the multi-file column were accepted, and the build of a
\* request with two uploads for the single-file column would have failed.
C37_Witness ==
  /\ fnOut # NotRun
  /\ fnIn.json = <<>>
  /\ UploadsFor("files") = {1, 2}
  /\ fnOut.status = "Ok"
  /\ Len(fnOut.files) = 2
  /\ fnOut.file_col_names = <<"files", "files">>

\***************************************************************************
\* Expanded selects: Expansions::build and SelectQueryBuilder::run_expanded
\***************************************************************************

\* The prefix a caller hands to Expansions::build: None for a record read, the
\* alias of the root table for a list request.
Prefixes == {None, "p"}

\* One cell of a result row: the column it holds and the position of that
\* column's table in the FROM clause (0 for the root table, j for the j-th join).
TableCells(cache, name, pos) ==
  LET t == CHOOSE m \in Lookup(cache, name) : TRUE
  IN [c \in 1..Len(t.columns) |-> [table |-> pos, column |-> t.columns[c].name]]

RECURSIVE JoinedCells(_, _, _)
JoinedCells(cache, names, j) ==
  IF j > Len(names) THEN <<>>
  ELSE TableCells(cache, names[j], j) \o JoinedCells(cache, names, j + 1)

\* The row of SELECT * FROM "table" AS R LEFT JOIN .. LEFT JOIN ..: the
\* columns of the root table, then the columns of every joined table, in the
\* order of the joins. A LEFT JOIN without a match yields the same columns.
JoinedRow(cache, table_name, joins) ==
  TableCells(cache, table_name, 0)
    \o JoinedCells(cache, [j \in DOMAIN joins |-> joins[j].foreign_table_name], 1)

\* The row of the query rendered from ReadRecordExpandedQueryTemplate: the
\* root table's columns, then each expanded table's columns, in join order.
TemplateRow(cache, table_name, expanded_tables) ==
  TableCells(cache, table_name, 0)
    \o JoinedCells(cache, [j \in DOMAIN expanded_tables |-> expanded_tables[j].foreign_table_name], 1)

NoJoin == [foreign_table_name |-> "", alias |-> "", col_name |-> "", foreign_pk_column |-> ""]
NoIndex == [n |-> 0, metadata |-> ""]

\* The body of the loop of Expansions::build for entry idx (counted from 0)
\* of the expand list.
BuildColumn(cache, root_table, idx, col_name, prefix) ==
  IF col_name = "" THEN [step |-> "continue", join |-> NoJoin, index |-> NoIndex]
  ELSE IF column_by_name(root_table, col_name) = {}
    THEN [step |-> "return", join |-> NoJoin, index |-> NoIndex]
  ELSE LET column == CHOOSE c \in column_by_name(root_table, col_name) : TRUE
           found == find_or_first(column.options, "ForeignKey")
       IN IF found = {} \/ \E o \in found : ~IsForeignKey(o)
            THEN [step |-> "return", join |-> NoJoin, index |-> NoIndex]
          ELSE LET fk == CHOOSE o \in found : TRUE
               IN IF Lookup(cache, fk.foreign_table) = {}
                    THEN [step |-> "return", join |-> NoJoin, index |-> NoIndex]
                  ELSE LET foreign_table == CHOOSE t \in Lookup(cache, fk.foreign_table) : TRUE
                       IN IF foreign_table.record_pk_column = {}
                            THEN [step |-> "return", join |-> NoJoin, index |-> NoIndex]
                          ELSE LET pk == CHOOSE i \in foreign_table.record_pk_column : TRUE
                               IN [step |-> "push",
                                   join |-> [foreign_table_name |-> fk.foreign_table,
                                             alias |-> "F" \o ToString(idx),
                                             col_name |-> IF prefix = None THEN col_name
                                                          ELSE prefix \o "." \o col_name,
                                             foreign_pk_column |-> foreign_table.columns[pk].name],
                                   index |-> [n |-> Len(foreign_table.columns),
                                              metadata |-> foreign_table.name]]

ExpansionsErr == [status |-> "ApiRequiresTable", indexes |-> <<>>, joins |-> <<>>, selects |-> None]

\* (0..joins.len()).map(|idx| format!("F{idx}.*"))
SelectsNumberedFromZero(joins) == [i \in 1..Len(joins) |-> "F" \o ToString(i - 1) \o ".*"]

RECURSIVE BuildLoop(_, _, _, _, _, _, _)
\* for (idx, col_name) in expand.iter().enumerate() { .. }, then the selects
BuildLoop(cache, root_table, expand, prefix, i, joins, indexes) ==
  IF i > Len(expand)
    THEN [status |-> "Ok", indexes |-> indexes, joins |-> joins,
          selects |-> IF prefix = None THEN None ELSE SelectsNumberedFromZero(joins)]
  ELSE LET r == BuildColumn(cache, root_table, i - 1, expand[i], prefix)
       IN IF r.step = "return" THEN ExpansionsErr
          ELSE IF r.step = "push"
            THEN BuildLoop(cache, root_table, expand, prefix, i + 1,
                           Append(joins, r.join), Append(indexes, r.index))
          ELSE BuildLoop(cache, root_table, expand, prefix, i + 1, joins, indexes)

\* Expansions::build
Expansions_build(table_metadata, table_name, expand, prefix) ==
  IF Lookup(table_metadata, table_name) = {} THEN ExpansionsErr
  ELSE LET root_table == CHOOSE t \in Lookup(table_metadata, table_name) : TRUE
       IN BuildLoop(table_metadata, root_table, expand, prefix, 1, <<>>,
                    <<[n |-> Len(root_table.columns), metadata |-> root_table.name]>>)

\* A split that hands everything to the first part.
split_off_nothing(vec, at) == [self |-> vec, other |-> <<>>]

\* Row::split_off(at): self keeps the first at values, the rest is returned.
split_off(vec, at) ==
  [self |-> SubSeq(vec, 1, at), other |-> SubSeq(vec, at + 1, Len(vec))]

RECURSIVE SplitLoop(_, _, _)
\* for (idx, metadata) in indexes { let next = curr.split_off(idx);
\*   result.push((metadata, curr)); curr = next; }
SplitLoop(indexes, i, curr) ==
  IF i > Len(indexes) THEN <<>>
  ELSE LET s == split_off(curr, indexes[i].n)
       IN <<[metadata |-> indexes[i].metadata, row |-> s.self]>>
            \o SplitLoop(indexes, i + 1, s.other)

RunErr(e) == [status |-> e, result |-> <<>>]

\* SelectQueryBuilder::run_expanded of query_builder.rs; found tells whether
\* query_row returned a row.
run_expanded(table_metadata, table_name, expand, found) ==
  IF Lookup(table_metadata, table_name) = {} THEN RunErr("ApiRequiresTable")
  ELSE LET main_table == CHOOSE t \in Lookup(table_metadata, table_name) : TRUE
           expanded == expand_tables(table_metadata, table_name, expand)
       IN IF expanded.status # "Ok" THEN RunErr(expanded.status)
          ELSE IF ~found THEN [status |-> "Ok", result |-> <<>>]
          ELSE LET first == split_off(TemplateRow(table_metadata, table_name, expanded.tables),
                                      Len(main_table.columns))
               IN [status |-> "Ok",
                   result |-> <<[metadata |-> main_table.name, row |-> first.self]>>
                     \o SplitLoop([j \in DOMAIN expanded.tables |->
                                     [n |-> expanded.tables[j].num_columns,
                                      metadata |-> expanded.tables[j].metadata]],
                                  1, first.other)]

\* SelectQueryBuilder::run_expanded of json_to_sql.rs
run_expanded_j2s(table_metadata, table_name, expand, found) ==
  LET e == Expansions_build(table_metadata, table_name, expand, None)
  IN IF e.status # "Ok" THEN RunErr(e.status)
     ELSE IF ~found THEN [status |-> "Ok", result |-> <<>>]
     ELSE [status |-> "Ok",
           result |-> SplitLoop(e.indexes, 1, JoinedRow(table_metadata, table_name, e.joins))]

SelectInit ==
  /\ fnIn \in {[table_name |-> t, expand |-> e, prefix |-> p, found |-> f] :
                 t \in {"root", "ghost"}, e \in ExpandLists, p \in Prefixes, f \in BOOLEAN}
  /\ fnOut = NotRun
  /\ pushed = None
  /\ lazy = None

\* A record read with an expand list, through query_builder.rs.
RunExpanded ==
  /\ fnOut = NotRun
  /\ fnIn.prefix = None
  /\ fnOut' = [fn |-> "run_expanded",
               out |-> run_expanded(ExpandCache, fnIn.table_name, fnIn.expand, fnIn.found)]
  /\ UNCHANGED <<fnIn, pushed, lazy>>

\* A record read with an expand list, through json_to_sql.rs.
RunExpandedJ2s ==
  /\ fnOut = NotRun
  /\ fnIn.prefix = None
  /\ fnOut' = [fn |-> "run_expanded_j2s",
               out |-> run_expanded_j2s(ExpandCache, fnIn.table_name, fnIn.expand, fnIn.found)]
  /\ UNCHANGED <<fnIn, pushed, lazy>>

\* A caller builds the expansions of its request, with or without a prefix.
ExpansionsBuild ==
  /\ fnOut = NotRun
  /\ fnOut' = [fn |-> "build",
               out |-> Expansions_build(ExpandCache, fnIn.table_name, fnIn.expand, fnIn.prefix)]
  /\ UNCHANGED <<fnIn, pushed, lazy>>

SelectNext == RunExpanded \/ RunExpandedJ2s \/ ExpansionsBuild

SpecSelectInit == CacheBuilt(InitCatalog) /\ RecordIdle /\ SelectInit /\ AlterIdle /\ SchemaIdle
SpecSelectNext == SelectNext /\ UNCHANGED cacheVars /\ UNCHANGED recordVars /\ UNCHANGED alterVars /\ UNCHANGED schemaVars
SpecSelect == SpecSelectInit /\ [][SpecSelectNext]_vars

\* The table a foreign-key column of the root table refers to.
ReferredTable(table_name, col_name) ==
  LET t == CHOOSE m \in Lookup(ExpandCache, table_name) : TRUE
      c == CHOOSE x \in column_by_name(t, col_name) : TRUE
      o == CHOOSE i \in DOMAIN c.options : IsForeignKey(c.options[i])
  IN c.options[o].foreign_table

\* C33: when an expanded select found its row, it returns the root table's
\* sub-row, holding exactly the root's columns, followed by one sub-row per
\* non-empty entry of the expand list, in the list's order, holding exactly the
\* columns of the table that entry joins; as the joined row holds the root's
\* columns and then each join's columns, the sub-rows are consecutive, disjoint
\* and cover it. When no row matched, the result is empty.
C33_SubRowsPartitionTheJoinedRow ==
  (fnOut # NotRun /\ fnOut.fn \in {"run_expanded", "run_expanded_j2s"} /\ fnOut.out.status = "Ok") =>
    LET names == SelectSeq(fnIn.expand, NonEmptyName)
        result == fnOut.out.result
    IN IF ~fnIn.found THEN result = <<>>
       ELSE /\ Len(result) = 1 + Len(names)
            /\ result[1] = [metadata |-> fnIn.table_name,
                            row |-> TableCells(ExpandCache, fnIn.table_name, 0)]
            /\ \A j \in 1..Len(names) :
                 LET ft == ReferredTable(fnIn.table_name, names[j])
                 IN result[j + 1] = [metadata |-> ft, row |-> TableCells(ExpandCache, ft, j)]

\* A read expanding fk and fk2 found its row and returned three sub-rows, of
\* 7, 2 and 2 columns.
C33_Witness ==
  /\ fnOut # NotRun
  /\ fnOut.fn = "run_expanded"
  /\ fnIn.found
  /\ fnIn.expand = <<"fk", "fk2">>
  /\ fnOut.out.status = "Ok"
  /\ Len(fnOut.out.result) = 3
  /\ Len(fnOut.out.result[1].row) = 7
  /\ Len(fnOut.out.result[3].row) = 2

\* C34: after a successful Expansions::build with a prefix, selects has one
\* clause per join and the i-th clause names the alias of the i-th join, also
\* when empty entries of the expand list were skipped.
C34_SelectsNameTheJoins ==
  (fnOut # NotRun /\ fnOut.fn = "build" /\ fnOut.out.status = "Ok" /\ fnIn.prefix # None) =>
    /\ Len(fnOut.out.selects) = Len(fnOut.out.joins)
    /\ \A i \in DOMAIN fnOut.out.joins :
         fnOut.out.selects[i] = fnOut.out.joins[i].alias \o ".*"

\***************************************************************************
\* JSON numbers, booleans and null: simple_json_value_to_param
\***************************************************************************

\* The limbs of the unsigned numbers of the requests: around 0, around 2^15
\* (the sign bit of the first limb) and the largest limb.
LimbMenu == {0, 1, TwoTo15 - 1, TwoTo15, TwoTo16 - 1}

NumberValues ==
  {JNull, JBool(FALSE), JBool(TRUE)}
    \cup {JNum(n) : n \in {-300, -1, 0, 1, 7}}
    \cup {JFloat(n) : n \in {-1, 0, 1}}
    \cup {JPosInt(l) : l \in [1..4 -> LimbMenu]}

ColumnTypes == {"Integer", "Real", "Text", "Blob"}

NumberInit ==
  /\ fnIn \in {[col_type |-> c, value |-> v] : c \in ColumnTypes, v \in NumberValues}
  /\ fnOut = NotRun
  /\ pushed = None
  /\ lazy = None

\* A caller converts one value of a request for a column of the given type.
SimpleJsonValueToParam ==
  /\ fnOut = NotRun
  /\ fnOut' = simple_json_value_to_param(fnIn.col_type, fnIn.value)
  /\ UNCHANGED <<fnIn, pushed, lazy>>

SpecNumberInit == CacheBuilt(InitCatalog) /\ RecordIdle /\ NumberInit /\ AlterIdle /\ SchemaIdle
SpecNumberNext == SimpleJsonValueToParam /\ UNCHANGED cacheVars /\ UNCHANGED recordVars /\ UNCHANGED alterVars /\ UNCHANGED schemaVars
SpecNumber == SpecNumberInit /\ [][SpecNumberNext]_vars

\* C38: whatever the column's type, null becomes Null, false and true become
\* Integer 0 and 1, a number that is not an integer becomes Real, and an
\* integer n becomes Integer n, with the value of n itself for every integer a
\* JSON number can hold, unsigned 64-bit values included.
C38_NumbersKeepTheirValue ==
  fnOut # NotRun =>
    LET v == fnIn.value
    IN CASE v.t = "null" -> fnOut = ValueOk(SqlNull)
         [] v.t = "bool" -> fnOut = ValueOk(SqlInteger(IF v = JBool(TRUE) THEN 1 ELSE 0))
         [] v.t = "i64" -> fnOut = ValueOk(SqlInteger(v.n))
         [] v.t = "u64" -> fnOut = ValueOk(SqlInteger(Wide(FALSE, v.a)))
         [] v.t = "f64" -> fnOut = ValueOk(SqlReal(v.n))

====
